---- MODULE Spec2Model ----
(***************************************************************************)
(* Model of packages/api/src/pg/serializer/snapshot.ts: the conversion of  *)
(* Drizzle schema objects into a snapshot document                         *)
(* (drizzleObjectsToSnapshot).                                             *)
(*                                                                         *)
(* JavaScript values are represented as follows.                           *)
(*   - a string is a TLA+ string; `undefined` in a string-typed position   *)
(*     is the reserved string Undefined;                                   *)
(*   - `undefined` in an object-typed position is the record None;         *)
(*   - a Record<string, X> is a sequence of [key, value] entries in        *)
(*     insertion order (the property order of a JS object whose keys are   *)
(*     not array indices); assigning to an existing key keeps its place;   *)
(*   - a string | number | undefined field is a tagged record (Str, Num,   *)
(*     Undef).                                                             *)
(***************************************************************************)
EXTENDS Integers, Sequences, FiniteSets, TLC

Undefined == "#undefined"

None == [undefined |-> TRUE]

\* a ?? b
Coalesce(a, b) == IF a = Undefined THEN b ELSE a

\* ---------------------------------------------------------------- Record<string, X>

EmptyMap == << >>

MapHas(m, k) == \E i \in 1..Len(m) : m[i].key = k

MapGet(m, k) == m[CHOOSE i \in 1..Len(m) : m[i].key = k].value

MapPut(m, k, v) ==
    IF MapHas(m, k)
    THEN [i \in 1..Len(m) |-> IF m[i].key = k THEN [key |-> k, value |-> v] ELSE m[i]]
    ELSE Append(m, [key |-> k, value |-> v])

MapKeys(m) == [i \in 1..Len(m) |-> m[i].key]

MapValues(m) == [i \in 1..Len(m) |-> m[i].value]

\* Array.prototype.includes
Includes(arr, x) == \E i \in 1..Len(arr) : arr[i] = x

\* Array.prototype.join
RECURSIVE Join(_, _)
Join(arr, sep) ==
    IF Len(arr) = 0 THEN ""
    ELSE IF Len(arr) = 1 THEN arr[1]
    ELSE arr[1] \o sep \o Join(Tail(arr), sep)

\* ---------------------------------------------------------------- string | number | undefined

Str(s) == [t |-> "string", s |-> s, n |-> 0]
Num(n) == [t |-> "number", s |-> "", n |-> n]
Undef == [t |-> "undefined", s |-> "", n |-> 0]

Digits == <<"0", "1", "2", "3", "4", "5", "6", "7", "8", "9">>

IsDigit(c) == \E d \in 1..10 : Digits[d] = c

RECURSIVE NatToString(_)
NatToString(n) ==
    IF n < 10 THEN Digits[n + 1]
    ELSE NatToString(n \div 10) \o Digits[(n % 10) + 1]

\* String(n) of an integer-valued number
NumberToString(n) == IF n < 0 THEN "-" \o NatToString(0 - n) ELSE NatToString(n)

\* the sign of parseFloat(s) for a decimal literal: parseFloat(s) < 0 holds when
\* s is "-" followed by a digit run (with optional fraction) that is not zero;
\* a string that does not parse gives NaN, and NaN < 0 is false.
RECURSIVE NonZeroNumeral(_, _)
NonZeroNumeral(s, seenDigit) ==
    IF Len(s) = 0 THEN FALSE
    ELSE IF IsDigit(Head(s))
         THEN (Head(s) # "0") \/ NonZeroNumeral(Tail(s), TRUE)
         ELSE IF Head(s) = "." /\ seenDigit THEN NonZeroNumeral(Tail(s), TRUE)
         ELSE FALSE

ParseFloatNegative(s) ==
    /\ Len(s) >= 2
    /\ Head(s) = "-"
    /\ IsDigit(Head(Tail(s)))
    /\ NonZeroNumeral(Tail(s), FALSE)

\* ---------------------------------------------------------------- identity helpers

indexName(tableName, columns) == tableName \o "_" \o Join(columns, "_") \o "_index"

stringFromIdentityProperty(field) ==
    IF field.t = "string" THEN field.s
    ELSE IF field.t = "undefined" THEN Undefined
    ELSE NumberToString(field.n)

maxRangeForIdentityBasedOn(columnType) ==
    IF columnType = "integer" THEN "2147483647"
    ELSE IF columnType = "bigint" THEN "9223372036854775807"
    ELSE "32767"

minRangeForIdentityBasedOn(columnType) ==
    IF columnType = "integer" THEN "-2147483648"
    ELSE IF columnType = "bigint" THEN "-9223372036854775808"
    ELSE "-32768"

\* ---------------------------------------------------------------- strings

\* String.prototype.indexOf, 1-based; 0 when pat does not occur in s from `from` on
RECURSIVE StrIndexOf(_, _, _)
StrIndexOf(s, pat, from) ==
    IF from + Len(pat) - 1 > Len(s) THEN 0
    ELSE IF SubSeq(s, from, from + Len(pat) - 1) = pat THEN from
    ELSE StrIndexOf(s, pat, from + 1)

\* String.prototype.replace with a string pattern: the first occurrence only
StrReplace(s, pat, rep) ==
    LET at == StrIndexOf(s, pat, 1)
    IN  IF at = 0 THEN s
        ELSE SubSeq(s, 1, at - 1) \o rep \o SubSeq(s, at + Len(pat), Len(s))

LowerCase == "abcdefghijklmnopqrstuvwxyz"
UpperCase == "ABCDEFGHIJKLMNOPQRSTUVWXYZ"

RECURSIVE ToUpperCase(_)
ToUpperCase(s) ==
    IF Len(s) = 0 THEN ""
    ELSE LET at == StrIndexOf(LowerCase, Head(s), 1)
         IN  (IF at = 0 THEN Head(s) ELSE SubSeq(UpperCase, at, at)) \o ToUpperCase(Tail(s))

RECURSIVE ToLowerCase(_)
ToLowerCase(s) ==
    IF Len(s) = 0 THEN ""
    ELSE LET at == StrIndexOf(UpperCase, Head(s), 1)
         IN  (IF at = 0 THEN Head(s) ELSE SubSeq(LowerCase, at, at)) \o ToLowerCase(Tail(s))

\* String.prototype.replaceAll with a string pattern of one character
RECURSIVE StrReplaceAll(_, _, _)
StrReplaceAll(s, pat, rep) ==
    IF Len(s) = 0 THEN ""
    ELSE (IF Head(s) = pat THEN rep ELSE Head(s)) \o StrReplaceAll(Tail(s), pat, rep)

\* s.split(sep)[0]
SplitHead(s, sep) ==
    LET at == StrIndexOf(s, sep, 1)
    IN  IF at = 0 THEN s ELSE SubSeq(s, 1, at - 1)

\* the snake_case policy on an identifier: an upper-case letter becomes "_" and
\* its lower-case letter (without the "_" at the start of the name)
RECURSIVE toSnakeCase(_, _)
toSnakeCase(s, first) ==
    IF Len(s) = 0 THEN ""
    ELSE LET at == StrIndexOf(UpperCase, Head(s), 1)
         IN  (IF at = 0 THEN Head(s)
              ELSE (IF first THEN "" ELSE "_") \o SubSeq(LowerCase, at, at))
             \o toSnakeCase(Tail(s), FALSE)

\* the camelCase policy on an identifier: "_" and the letter after it become
\* the upper-case letter
RECURSIVE toCamelCase(_)
toCamelCase(s) ==
    IF Len(s) = 0 THEN ""
    ELSE IF Head(s) = "_" /\ Len(s) > 1
    THEN ToUpperCase(SubSeq(s, 2, 2)) \o toCamelCase(SubSeq(s, 3, Len(s)))
    ELSE Head(s) \o toCamelCase(Tail(s))

\* name of a column under the casing policy (internal/helpers getColumnCasing);
\* without a casing policy the declared name is used as it is
getColumnCasing(column, casing) ==
    IF column.name = Undefined \/ column.name = "" THEN ""
    ELSE IF casing = Undefined THEN column.name
    ELSE IF casing = "camelCase" THEN toCamelCase(column.name)
    ELSE toSnakeCase(column.name, TRUE)

\* drizzle-orm uniqueKeyName(table, columns)
uniqueKeyName(tableName, columns) == tableName \o "_" \o Join(columns, "_") \o "_unique"

CasedNames(columns, casing) == [i \in 1..Len(columns) |-> getColumnCasing(columns[i], casing)]

OriginalNames(columns) == [i \in 1..Len(columns) |-> columns[i].name]

\* ---------------------------------------------------------------- default values

\* a JS value a column default is made of: kind is "undefined", "sql",
\* "string", "number", "boolean", "date", "object" or "array"; a Date carries
\* its toISOString() in s, an object its JSON.stringify() in s
NoValue == [kind |-> "undefined", n |-> 0, s |-> "", b |-> FALSE, items |-> << >>]
SqlValue(text) == [NoValue EXCEPT !.kind = "sql", !.s = text]
StringValue(s) == [NoValue EXCEPT !.kind = "string", !.s = s]
NumberValue(n) == [NoValue EXCEPT !.kind = "number", !.n = n]
BooleanValue(b) == [NoValue EXCEPT !.kind = "boolean", !.b = b]
DateValue(iso) == [NoValue EXCEPT !.kind = "date", !.s = iso]
ObjectValue(json) == [NoValue EXCEPT !.kind = "object", !.s = json]
ArrayValue(items) == [NoValue EXCEPT !.kind = "array", !.items = items]

\* value.toISOString() formatted for the SQL type
DateString(iso, sqlType) ==
    IF sqlType = "date" THEN SplitHead(iso, "T")
    ELSE IF sqlType = "timestamp" THEN SubSeq(StrReplace(iso, "T", " "), 1, 23)
    ELSE iso

RECURSIVE buildArrayString(_, _)
buildArrayString(array, sqlType) ==
    LET type == SplitHead(sqlType, "[")
        Element(value) ==
            IF value.kind = "number" THEN NumberToString(value.n)
            ELSE IF value.kind = "boolean" THEN (IF value.b THEN "true" ELSE "false")
            ELSE IF value.kind = "array" THEN buildArrayString(value.items, type)
            ELSE IF value.kind = "date" THEN "\"" \o DateString(value.s, type) \o "\""
            ELSE IF value.kind = "object"
            THEN "\"" \o StrReplaceAll(value.s, "\"", "\\\"") \o "\""
            ELSE "\"" \o value.s \o "\""
    IN  "{" \o Join([k \in 1..Len(array) |-> Element(array[k])], ",") \o "}"

\* JSON.stringify of a value
RECURSIVE JsonStringify(_)
JsonStringify(value) ==
    IF value.kind = "number" THEN NumberToString(value.n)
    ELSE IF value.kind = "boolean" THEN (IF value.b THEN "true" ELSE "false")
    ELSE IF value.kind = "array"
    THEN "[" \o Join([k \in 1..Len(value.items) |-> JsonStringify(value.items[k])], ",")
         \o "]"
    ELSE IF value.kind = "object" THEN value.s
    ELSE "\"" \o value.s \o "\""

\* sql/utils escapeSingleQuotes: every single quote is doubled
escapeSingleQuotes(s) == StrReplaceAll(s, "'", "''")

\* internal/helpers sqlToStr: the text of an SQL object
sqlToStr(sql) == sql.s

\* utils isPgArrayType: the type has a "[" with digits, if any, and "]" after it
RECURSIVE ClosesBracket(_)
ClosesBracket(s) ==
    IF Len(s) = 0 THEN FALSE
    ELSE IF Head(s) = "]" THEN TRUE
    ELSE IF IsDigit(Head(s)) THEN ClosesBracket(Tail(s))
    ELSE FALSE

RECURSIVE isPgArrayType(_)
isPgArrayType(sqlType) ==
    IF Len(sqlType) = 0 THEN FALSE
    ELSE IF Head(sqlType) = "[" /\ ClosesBracket(Tail(sqlType)) THEN TRUE
    ELSE isPgArrayType(Tail(sqlType))

\* (mutant) an array default is joined without recursion into nested arrays
ColumnDefaultFlat(column) ==
    IF column.default.kind = "array" /\ isPgArrayType(ToLowerCase(column.sqlType))
    THEN StringValue("'{" \o Join([k \in 1..Len(column.default.items) |->
                                      IF column.default.items[k].kind = "number"
                                      THEN NumberToString(column.default.items[k].n)
                                      ELSE "\"" \o column.default.items[k].s \o "\""],
                                   ",") \o "}'")
    ELSE column.default

\* columnToSet.default of a column whose default is not undefined
ColumnDefault(column) ==
    LET sqlTypeLowered == ToLowerCase(column.sqlType)
        default == column.default
    IN  IF default.kind = "sql" THEN StringValue(sqlToStr(default))
        ELSE IF default.kind = "string"
        THEN StringValue("'" \o escapeSingleQuotes(default.s) \o "'")
        ELSE IF sqlTypeLowered = "jsonb" \/ sqlTypeLowered = "json"
        THEN StringValue("'" \o JsonStringify(default) \o "'::" \o sqlTypeLowered)
        ELSE IF default.kind = "date"
        THEN StringValue("'" \o DateString(default.s, sqlTypeLowered) \o "'")
        ELSE IF isPgArrayType(sqlTypeLowered) /\ default.kind = "array"
        THEN StringValue("'" \o buildArrayString(default.items, sqlTypeLowered) \o "'")
        ELSE default

\* ---------------------------------------------------------------- column mapper

NoSequenceOptions ==
    [increment |-> Undef, minValue |-> Undef, maxValue |-> Undef,
     startWith |-> Undef, cache |-> Undef, cycle |-> Undefined]

\* identity?.sequenceOptions
SequenceOptionsOf(identity) ==
    IF identity = None THEN NoSequenceOptions ELSE identity.sequenceOptions

\* the identity range of a column: increment, minValue, maxValue, startWith, cache
IdentityRange(column) ==
    LET opts == SequenceOptionsOf(column.generatedIdentity)
        WithBounds(increment, minValue, maxValue) ==
            [increment |-> increment, minValue |-> minValue, maxValue |-> maxValue,
             startWith |->
                Coalesce(stringFromIdentityProperty(opts.startWith),
                         IF ParseFloatNegative(increment) THEN maxValue ELSE minValue),
             cache |-> Coalesce(stringFromIdentityProperty(opts.cache), "1"),
             cycle |-> (Coalesce(opts.cycle, "false") = "true")]
        WithIncrement(increment) ==
            WithBounds(increment,
                       Coalesce(stringFromIdentityProperty(opts.minValue),
                                IF ParseFloatNegative(increment)
                                THEN minRangeForIdentityBasedOn(column.columnType)
                                ELSE "1"),
                       Coalesce(stringFromIdentityProperty(opts.maxValue),
                                IF ParseFloatNegative(increment)
                                THEN "-1"
                                ELSE maxRangeForIdentityBasedOn(column.sqlType)))
    IN  WithIncrement(Coalesce(stringFromIdentityProperty(opts.increment), "1"))

\* columnToSet of a column named `name` that belongs to the table or view `owner`
ColumnToSet(column, name, owner, schema) ==
    LET identity == column.generatedIdentity
        Identity(range) ==
            [type |-> identity.type,
             name |-> Coalesce(identity.sequenceName, owner \o "_" \o name \o "_seq"),
             schema |-> Coalesce(schema, "public"),
             increment |-> range.increment,
             startWith |-> range.startWith,
             minValue |-> range.minValue,
             maxValue |-> range.maxValue,
             cache |-> range.cache,
             cycle |-> range.cycle]
    IN  [name |-> name,
         type |-> column.sqlType,
         primaryKey |-> column.primary,
         notNull |-> column.notNull,
         identity |-> IF identity = None THEN None ELSE Identity(IdentityRange(column)),
         default |-> NoValue]

\* the duplicate test of a unique constraint name against those of the same table
UniqueNameTaken(uniqueConstraintObject, name) == MapHas(uniqueConstraintObject, name)

\* one iteration of columns.forEach; acc = [err, columnsObject, uniqueConstraintObject]
ColumnStep(column, name, owner, schema, acc) ==
    LET Store(columnToSet) ==
            [acc EXCEPT
                !.uniqueConstraintObject =
                    IF column.isUnique
                    THEN MapPut(@, column.uniqueName,
                                [name |-> column.uniqueName,
                                 nullsNotDistinct |-> (column.uniqueType = "not distinct"),
                                 columns |-> <<columnToSet.name>>])
                    ELSE @,
                !.columnsObject =
                    MapPut(@, name,
                           IF column.default.kind # "undefined"
                           THEN [columnToSet EXCEPT !.default = ColumnDefault(column)]
                           ELSE columnToSet)]
    IN  IF column.isUnique /\ UniqueNameTaken(acc.uniqueConstraintObject, column.uniqueName)
        THEN [acc EXCEPT !.err = "Duplicated unique constraint name"]
        ELSE Store(ColumnToSet(column, name, owner, schema))

RECURSIVE TableColumns(_, _, _, _, _, _)
TableColumns(columns, i, tableName, schema, casing, acc) ==
    IF i > Len(columns) \/ acc.err # Undefined THEN acc
    ELSE TableColumns(columns, i + 1, tableName, schema, casing,
                      ColumnStep(columns[i], getColumnCasing(columns[i], casing),
                                 tableName, schema, acc))

\* ---------------------------------------------------------------- keys and constraints

\* the name of a key after the casing rewrite: each original column name is
\* replaced (first occurrence) by its cased name, in order
RECURSIVE RewriteName(_, _, _, _)
RewriteName(name, originals, cased, i) ==
    IF i > Len(originals) THEN name
    ELSE RewriteName(StrReplace(name, originals[i], cased[i]), originals, cased, i + 1)

RECURSIVE PrimaryKeys(_, _, _, _)
PrimaryKeys(primaryKeys, i, casing, primaryKeysObject) ==
    IF i > Len(primaryKeys) THEN primaryKeysObject
    ELSE LET pk == primaryKeys[i]
             columnNames == CasedNames(pk.columns, casing)
             name == IF casing # Undefined
                     THEN RewriteName(pk.name, OriginalNames(pk.columns), columnNames, 1)
                     ELSE pk.name
         IN  PrimaryKeys(primaryKeys, i + 1, casing,
                         MapPut(primaryKeysObject, name,
                                [name |-> name, columns |-> columnNames]))

\* (mutant) the duplicate test looks up the declared name, not the resolved one
UniqueStepChecksDeclaredName(unq, tableName, casing, acc) ==
    LET columnNames == CasedNames(unq.columns, casing)
        name == Coalesce(unq.name, uniqueKeyName(tableName, columnNames))
    IN  IF UniqueNameTaken(acc.uniqueConstraintObject, unq.name)
        THEN [acc EXCEPT !.err = "We've found duplicated unique constraint names"]
        ELSE [acc EXCEPT
                !.uniqueConstraintObject =
                    MapPut(@, name,
                           [name |-> unq.name,
                            nullsNotDistinct |-> unq.nullsNotDistinct,
                            columns |-> columnNames])]

\* one iteration of uniqueConstraints.map; acc = [err, ..., uniqueConstraintObject]
UniqueStep(unq, tableName, casing, acc) ==
    LET columnNames == CasedNames(unq.columns, casing)
        name == Coalesce(unq.name, uniqueKeyName(tableName, columnNames))
    IN  IF UniqueNameTaken(acc.uniqueConstraintObject, name)
        THEN [acc EXCEPT !.err = "We've found duplicated unique constraint names"]
        ELSE [acc EXCEPT
                !.uniqueConstraintObject =
                    MapPut(@, name,
                           [name |-> unq.name,
                            nullsNotDistinct |-> unq.nullsNotDistinct,
                            columns |-> columnNames])]

RECURSIVE UniqueConstraints(_, _, _, _, _)
UniqueConstraints(uniqueConstraints, i, tableName, casing, acc) ==
    IF i > Len(uniqueConstraints) \/ acc.err # Undefined THEN acc
    ELSE UniqueConstraints(uniqueConstraints, i + 1, tableName, casing,
                           UniqueStep(uniqueConstraints[i], tableName, casing, acc))

RECURSIVE ForeignKeys(_, _, _, _, _)
ForeignKeys(foreignKeys, i, tableName, casing, foreignKeysObject) ==
    IF i > Len(foreignKeys) THEN foreignKeysObject
    ELSE LET fk == foreignKeys[i]
             reference == fk.reference
             columnsFrom == CasedNames(reference.columns, casing)
             columnsTo == CasedNames(reference.foreignColumns, casing)
             name == IF casing # Undefined
                     THEN RewriteName(
                              RewriteName(fk.name, OriginalNames(reference.columns),
                                          columnsFrom, 1),
                              OriginalNames(reference.foreignColumns), columnsTo, 1)
                     ELSE fk.name
         IN  ForeignKeys(foreignKeys, i + 1, tableName, casing,
                         MapPut(foreignKeysObject, name,
                                [name |-> name,
                                 tableFrom |-> tableName,
                                 tableTo |-> reference.foreignTable.name,
                                 schemaTo |-> reference.foreignTable.schema,
                                 columnsFrom |-> columnsFrom,
                                 columnsTo |-> columnsTo,
                                 onDelete |-> fk.onDelete,
                                 onUpdate |-> fk.onUpdate]))

\* ---------------------------------------------------------------- indexes

\* is a JS string truthy
Truthy(s) == s # Undefined /\ s # ""

\* the scan of one index's members (columns.forEach of an index):
\* acc = [err, indexColumnNames]
\* (mutant) the operator class is required in unnamed indexes only
IndexMemberStepNamedUnchecked(it, value, casing, acc) ==
    LET name == getColumnCasing(it, casing)
    IN  IF it.isSQL /\ value.name = Undefined
        THEN [acc EXCEPT !.err = "Please specify an index name"]
        ELSE IF ~it.isSQL /\ it.type = "PgVector" /\ it.opClass = Undefined
                /\ value.name = Undefined
        THEN [acc EXCEPT !.err = "vector type without specifying an operator class"]
        ELSE [acc EXCEPT !.indexColumnNames = Append(@, name)]

\* (mutant) the generated name is made of the declared column names
IndexMemberStepDeclaredNames(it, value, casing, acc) ==
    IF it.isSQL /\ value.name = Undefined
    THEN [acc EXCEPT !.err = "Please specify an index name"]
    ELSE IF ~it.isSQL /\ it.type = "PgVector" /\ it.opClass = Undefined
    THEN [acc EXCEPT !.err = "vector type without specifying an operator class"]
    ELSE [acc EXCEPT !.indexColumnNames = Append(@, Coalesce(it.name, ""))]

IndexMemberStep(it, value, casing, acc) ==
    LET name == getColumnCasing(it, casing)
    IN  IF it.isSQL /\ value.name = Undefined
        THEN [acc EXCEPT !.err = "Please specify an index name"]
        ELSE IF ~it.isSQL /\ it.type = "PgVector" /\ it.opClass = Undefined
        THEN [acc EXCEPT !.err = "vector type without specifying an operator class"]
        ELSE [acc EXCEPT !.indexColumnNames = Append(@, name)]

RECURSIVE IndexMembers(_, _, _, _, _)
IndexMembers(columns, i, value, casing, acc) ==
    IF i > Len(columns) \/ acc.err # Undefined THEN acc
    ELSE IndexMembers(columns, i + 1, value, casing,
                      IndexMemberStep(columns[i], value, casing, acc))

IndexColumn(it, casing) ==
    IF it.isSQL
    THEN [expression |-> it.sql, asc |-> TRUE, isExpression |-> TRUE,
          nulls |-> "last", opclass |-> Undefined]
    ELSE [expression |-> getColumnCasing(it, casing),
          isExpression |-> FALSE,
          asc |-> (it.order = "asc"),
          nulls |-> IF Truthy(it.nulls) THEN it.nulls
                    ELSE IF it.order = "desc" THEN "first" ELSE "last",
          opclass |-> it.opClass]

\* (mutant) a registry of index names per table
IndexScopePerTable(schema, tableName) == Coalesce(schema, "public") \o "." \o tableName

\* the key of the index-name registry an index of a table in `schema` is checked in
IndexScope(schema, tableName) == Coalesce(schema, "public")

\* one iteration of indexes.forEach; acc = [err, ..., indexesObject, indexesInSchema]
IndexStep(value, tableName, schema, casing, acc) ==
    LET indexColumns == [i \in 1..Len(value.columns) |-> IndexColumn(value.columns[i], casing)]
        scope == IndexScope(schema, tableName)
        Register(name) ==
            IF MapHas(acc.indexesInSchema, scope)
               /\ Includes(MapGet(acc.indexesInSchema, scope), name)
            THEN [acc EXCEPT !.err = "We've found duplicated index name"]
            ELSE [acc EXCEPT
                    !.indexesInSchema =
                        IF MapHas(@, scope)
                        THEN MapPut(@, scope, Append(MapGet(@, scope), name))
                        ELSE MapPut(@, scope, <<name>>),
                    !.indexesObject =
                        MapPut(@, name,
                               [name |-> name,
                                columns |-> indexColumns,
                                isUnique |-> value.unique,
                                concurrently |-> value.concurrently,
                                method |-> Coalesce(value.method, "btree")])]
        Scanned(scan) ==
            IF scan.err # Undefined THEN [acc EXCEPT !.err = scan.err]
            ELSE Register(IF Truthy(value.name) THEN value.name
                          ELSE indexName(tableName, scan.indexColumnNames))
    IN  Scanned(IndexMembers(value.columns, 1, value, casing,
                             [err |-> Undefined, indexColumnNames |-> << >>]))

RECURSIVE Indexes(_, _, _, _, _, _)
Indexes(indexes, i, tableName, schema, casing, acc) ==
    IF i > Len(indexes) \/ acc.err # Undefined THEN acc
    ELSE Indexes(indexes, i + 1, tableName, schema, casing,
                 IndexStep(indexes[i], tableName, schema, casing, acc))

\* ---------------------------------------------------------------- policies

\* UTF-16 order of the characters that names are written with
CharOrder == "0123456789ABCDEFGHIJKLMNOPQRSTUVWXYZ_abcdefghijklmnopqrstuvwxyz"

CharCode(c) == StrIndexOf(CharOrder, c, 1)

\* a < b in the order Array.prototype.sort uses by default
RECURSIVE StrLess(_, _)
StrLess(a, b) ==
    IF Len(b) = 0 THEN FALSE
    ELSE IF Len(a) = 0 THEN TRUE
    ELSE IF Head(a) = Head(b) THEN StrLess(Tail(a), Tail(b))
    ELSE CharCode(Head(a)) < CharCode(Head(b))

\* insertion of x into a sorted array, after the elements that are not greater
RECURSIVE SortedInsert(_, _)
SortedInsert(arr, x) ==
    IF Len(arr) = 0 THEN <<x>>
    ELSE IF StrLess(x, Head(arr)) THEN <<x>> \o arr
    ELSE <<Head(arr)>> \o SortedInsert(Tail(arr), x)

\* Array.prototype.sort() of an array of strings
RECURSIVE Sort(_)
Sort(arr) ==
    IF Len(arr) = 0 THEN << >>
    ELSE SortedInsert(Sort(SubSeq(arr, 1, Len(arr) - 1)), arr[Len(arr)])

\* a policy's `to`: undefined, a string, a PgRole, or an array of these
PolicyToUndefined == [kind |-> "undefined", name |-> "", items |-> << >>]
PolicyToString(name) == [kind |-> "string", name |-> name, items |-> << >>]
PolicyToRole(name) == [kind |-> "role", name |-> name, items |-> << >>]
PolicyToArray(items) == [kind |-> "array", name |-> "", items |-> items]

RECURSIVE MappedToItems(_)
MappedToItems(items) ==
    IF Len(items) = 0 THEN << >>
    ELSE (IF Head(items).kind \in {"string", "role"} THEN <<Head(items).name>> ELSE << >>)
         \o MappedToItems(Tail(items))

\* mappedTo, before it is sorted
MappedTo(to) ==
    IF to.kind = "undefined" \/ (to.kind = "string" /\ to.name = "") THEN <<"public">>
    ELSE IF to.kind \in {"string", "role"} THEN <<to.name>>
    ELSE IF to.kind = "array" THEN MappedToItems(to.items)
    ELSE << >>

\* (mutant) mappedTo is stored in the order it was collected in
MappedPolicyUnsorted(policy) ==
    [name |-> policy.name,
     as |-> IF policy.as = Undefined THEN "PERMISSIVE" ELSE ToUpperCase(policy.as),
     for |-> IF policy.for = Undefined THEN "ALL" ELSE ToUpperCase(policy.for),
     to |-> MappedTo(policy.to),
     using |-> policy.using,
     withCheck |-> policy.withCheck,
     schema |-> Undefined,
     on |-> Undefined]

MappedPolicy(policy) ==
    [name |-> policy.name,
     as |-> IF policy.as = Undefined THEN "PERMISSIVE" ELSE ToUpperCase(policy.as),
     for |-> IF policy.for = Undefined THEN "ALL" ELSE ToUpperCase(policy.for),
     to |-> Sort(MappedTo(policy.to)),
     using |-> policy.using,
     withCheck |-> policy.withCheck,
     schema |-> Undefined,
     on |-> Undefined]

\* the duplicate test of an inline policy: against the policies of its own table
InlinePolicyTaken(policiesObject, name) == MapHas(policiesObject, name)

\* one iteration of policies.forEach of a table; acc = [err, ..., policiesObject].
\* The error message reads tableKey, a const that is declared further down in
\* the loop body: the read is in its temporal dead zone and throws a
\* ReferenceError before the intended Error is constructed.
InlinePolicyStep(policy, acc) ==
    IF InlinePolicyTaken(acc.policiesObject, policy.name)
    THEN [acc EXCEPT !.err = "ReferenceError: Cannot access 'tableKey' before initialization"]
    ELSE [acc EXCEPT !.policiesObject = MapPut(@, policy.name, MappedPolicy(policy))]

RECURSIVE InlinePolicies(_, _, _)
InlinePolicies(policies, i, acc) ==
    IF i > Len(policies) \/ acc.err # Undefined THEN acc
    ELSE InlinePolicies(policies, i + 1, InlinePolicyStep(policies[i], acc))

\* ---------------------------------------------------------------- checks

QuotedTableName(schema, tableName) ==
    "\"" \o Coalesce(schema, "public") \o "\".\"" \o tableName \o "\""

\* (mutant) a check constraint is stored without the duplicate test
CheckStepUnchecked(check, tableName, schema, acc) ==
    [acc EXCEPT
        !.checksObject = MapPut(@, check.name, [name |-> check.name, value |-> check.value])]

\* one iteration of checks.forEach; acc = [err, ..., checksObject, checksInTable]
CheckStep(check, tableName, schema, acc) ==
    LET q == QuotedTableName(schema, tableName)
    IN  IF MapHas(acc.checksInTable, q) /\ Includes(MapGet(acc.checksInTable, q), check.name)
        THEN [acc EXCEPT !.err = "We've found duplicated check constraint name"]
        ELSE [acc EXCEPT
                !.checksInTable =
                    IF MapHas(@, q)
                    THEN MapPut(@, q, Append(MapGet(@, q), check.name))
                    ELSE MapPut(@, q, <<check.name>>),
                !.checksObject =
                    MapPut(@, check.name, [name |-> check.name, value |-> check.value])]

RECURSIVE Checks(_, _, _, _, _)
Checks(checks, i, tableName, schema, acc) ==
    IF i > Len(checks) \/ acc.err # Undefined THEN acc
    ELSE Checks(checks, i + 1, tableName, schema,
                CheckStep(checks[i], tableName, schema, acc))

\* ---------------------------------------------------------------- table assembler

\* schemaFilter && !schemaFilter.includes(schema ?? "public")
TableSkipped(table, config) ==
    /\ config.schemaFilter.defined
    /\ ~Includes(config.schemaFilter.list, Coalesce(table.schema, "public"))

\* (mutant) the key of a table without schema has no "public" in it
TableKeyUndefaulted(schema, name) == Coalesce(schema, "") \o "." \o name

TableKey(schema, name) == Coalesce(schema, "public") \o "." \o name

\* the members of one table, in the order of the loop body
TableMembers(table, casing, indexesInSchema) ==
    LET acc0 == [err |-> Undefined,
                 columnsObject |-> EmptyMap,
                 indexesObject |-> EmptyMap,
                 checksObject |-> EmptyMap,
                 uniqueConstraintObject |-> EmptyMap,
                 policiesObject |-> EmptyMap,
                 checksInTable |-> EmptyMap,
                 indexesInSchema |-> indexesInSchema]
        acc1 == TableColumns(table.columns, 1, table.name, table.schema, casing, acc0)
        acc2 == UniqueConstraints(table.uniqueConstraints, 1, table.name, casing, acc1)
        acc3 == Indexes(table.indexes, 1, table.name, table.schema, casing, acc2)
        acc4 == InlinePolicies(table.policies, 1, acc3)
    IN  Checks(table.checks, 1, table.name, table.schema, acc4)

\* the entity stored for a table whose members are in acc
TableEntity(table, config, acc) ==
    [name |-> table.name,
     schema |-> Coalesce(table.schema, ""),
     columns |-> acc.columnsObject,
     indexes |-> acc.indexesObject,
     foreignKeys |-> ForeignKeys(table.foreignKeys, 1, table.name, config.casing, EmptyMap),
     compositePrimaryKeys |-> PrimaryKeys(table.primaryKeys, 1, config.casing, EmptyMap),
     uniqueConstraints |-> acc.uniqueConstraintObject,
     policies |-> acc.policiesObject,
     checkConstraints |-> acc.checksObject,
     isRLSEnabled |-> table.enableRLS]

\* (mutant) the schema filter is applied after the members were converted
TableStepFiltersLate(table, config, result, indexesInSchema) ==
    LET Store(acc) ==
            IF acc.err # Undefined
            THEN [err |-> acc.err, result |-> result,
                  indexesInSchema |-> acc.indexesInSchema]
            ELSE IF TableSkipped(table, config)
            THEN [err |-> Undefined, result |-> result, indexesInSchema |-> indexesInSchema]
            ELSE [err |-> Undefined,
                  result |-> MapPut(result, TableKey(table.schema, table.name),
                                    TableEntity(table, config, acc)),
                  indexesInSchema |-> acc.indexesInSchema]
    IN  Store(TableMembers(table, config.casing, indexesInSchema))

\* (mutant) a table that cannot be converted is left out and the call goes on
TableStepSkipsFailedTable(table, config, result, indexesInSchema) ==
    LET Store(acc) ==
            IF acc.err # Undefined
            THEN [err |-> Undefined, result |-> result,
                  indexesInSchema |-> acc.indexesInSchema]
            ELSE [err |-> Undefined,
                  result |-> MapPut(result, TableKey(table.schema, table.name),
                                    TableEntity(table, config, acc)),
                  indexesInSchema |-> acc.indexesInSchema]
    IN  IF TableSkipped(table, config)
        THEN [err |-> Undefined, result |-> result, indexesInSchema |-> indexesInSchema]
        ELSE Store(TableMembers(table, config.casing, indexesInSchema))

\* one iteration of `for (const table of tables)`:
\* [err, result, indexesInSchema] after the table
TableStep(table, config, result, indexesInSchema) ==
    LET Store(acc) ==
            IF acc.err # Undefined
            THEN [err |-> acc.err, result |-> result,
                  indexesInSchema |-> acc.indexesInSchema]
            ELSE [err |-> Undefined,
                  result |-> MapPut(result, TableKey(table.schema, table.name),
                                    TableEntity(table, config, acc)),
                  indexesInSchema |-> acc.indexesInSchema]
    IN  IF TableSkipped(table, config)
        THEN [err |-> Undefined, result |-> result, indexesInSchema |-> indexesInSchema]
        ELSE Store(TableMembers(table, config.casing, indexesInSchema))

\* ---------------------------------------------------------------- linked policies

\* !policy._linkedTable
PolicyUnlinked(policy) == policy.linkedTable = None

\* (mutant) the test against the top-level policies only
LinkedPolicyTakenTopLevelOnly(policy, tableKey, result, policiesToReturn) ==
    MapHas(policiesToReturn, policy.name)

\* the duplicate test of a linked policy: against the policies stored for its
\* table and against the top-level policies
LinkedPolicyTaken(policy, tableKey, result, policiesToReturn) ==
    \/ MapHas(result, tableKey) /\ MapHas(MapGet(result, tableKey).policies, policy.name)
    \/ MapHas(policiesToReturn, policy.name)

\* (mutant) a linked policy that passes the test is put in the top-level
\* policies, whether its table is in the result or not
LinkedPolicyStepTopLevel(policy, result, policiesToReturn) ==
    LET tableConfig == policy.linkedTable
        tableKey == TableKey(tableConfig.schema, tableConfig.name)
        mappedPolicy == MappedPolicy(policy)
    IN  IF LinkedPolicyTaken(policy, tableKey, result, policiesToReturn)
        THEN [err |-> "We've found duplicated policy name",
              result |-> result, policiesToReturn |-> policiesToReturn]
        ELSE [err |-> Undefined,
              result |-> result,
              policiesToReturn |->
                 MapPut(policiesToReturn, policy.name,
                        [mappedPolicy EXCEPT
                           !.schema = Coalesce(tableConfig.schema, "public"),
                           !.on = QuotedTableName(tableConfig.schema, tableConfig.name)])]

\* a standalone policy that has a linked table: [err, result, policiesToReturn]
LinkedPolicyStep(policy, result, policiesToReturn) ==
    LET tableConfig == policy.linkedTable
        tableKey == TableKey(tableConfig.schema, tableConfig.name)
        mappedPolicy == MappedPolicy(policy)
    IN  IF LinkedPolicyTaken(policy, tableKey, result, policiesToReturn)
        THEN [err |-> "We've found duplicated policy name",
              result |-> result, policiesToReturn |-> policiesToReturn]
        ELSE IF MapHas(result, tableKey)
        THEN [err |-> Undefined,
              result |->
                 MapPut(result, tableKey,
                        [MapGet(result, tableKey) EXCEPT
                           !.policies = MapPut(@, policy.name, mappedPolicy)]),
              policiesToReturn |-> policiesToReturn]
        ELSE [err |-> Undefined,
              result |-> result,
              policiesToReturn |->
                 MapPut(policiesToReturn, policy.name,
                        [mappedPolicy EXCEPT
                           !.schema = Coalesce(tableConfig.schema, "public"),
                           !.on = QuotedTableName(tableConfig.schema, tableConfig.name)])]

\* (mutant) an unlinked policy is kept in the top-level policies
PolicyStepKeepsUnlinked(policy, result, policiesToReturn) ==
    IF PolicyUnlinked(policy)
    THEN [err |-> Undefined, result |-> result,
          policiesToReturn |-> MapPut(policiesToReturn, policy.name, MappedPolicy(policy))]
    ELSE LinkedPolicyStep(policy, result, policiesToReturn)

\* one iteration of `for (const policy of policies)`:
\* [err, result, policiesToReturn] after the policy
PolicyStep(policy, result, policiesToReturn) ==
    IF PolicyUnlinked(policy)
    THEN [err |-> Undefined, result |-> result, policiesToReturn |-> policiesToReturn]
    ELSE LinkedPolicyStep(policy, result, policiesToReturn)

\* ---------------------------------------------------------------- sequences and roles

\* (mutant) a later sequence of the same qualified name replaces the entry
SequenceStepKeepsLast(sequence, sequencesToReturn) ==
    LET key == Coalesce(sequence.schema, "public") \o "." \o sequence.seqName
        opts == sequence.seqOptions
        WithBounds(increment, minValue, maxValue) ==
            [name |-> sequence.seqName,
             schema |-> Coalesce(sequence.schema, "public"),
             increment |-> increment,
             startWith |->
                Coalesce(stringFromIdentityProperty(opts.startWith),
                         IF ParseFloatNegative(increment) THEN maxValue ELSE minValue),
             minValue |-> minValue,
             maxValue |-> maxValue,
             cache |-> Coalesce(stringFromIdentityProperty(opts.cache), "1"),
             cycle |-> (Coalesce(opts.cycle, "false") = "true")]
        WithIncrement(increment) ==
            WithBounds(increment,
                       Coalesce(stringFromIdentityProperty(opts.minValue),
                                IF ParseFloatNegative(increment)
                                THEN "-9223372036854775808" ELSE "1"),
                       Coalesce(stringFromIdentityProperty(opts.maxValue),
                                IF ParseFloatNegative(increment)
                                THEN "-1" ELSE "9223372036854775807"))
    IN  MapPut(sequencesToReturn, key,
               WithIncrement(Coalesce(stringFromIdentityProperty(opts.increment), "1")))

\* one iteration of `for (const sequence of sequences)`
SequenceStep(sequence, sequencesToReturn) ==
    LET key == Coalesce(sequence.schema, "public") \o "." \o sequence.seqName
        opts == sequence.seqOptions
        WithBounds(increment, minValue, maxValue) ==
            [name |-> sequence.seqName,
             schema |-> Coalesce(sequence.schema, "public"),
             increment |-> increment,
             startWith |->
                Coalesce(stringFromIdentityProperty(opts.startWith),
                         IF ParseFloatNegative(increment) THEN maxValue ELSE minValue),
             minValue |-> minValue,
             maxValue |-> maxValue,
             cache |-> Coalesce(stringFromIdentityProperty(opts.cache), "1"),
             cycle |-> (Coalesce(opts.cycle, "false") = "true")]
        WithIncrement(increment) ==
            WithBounds(increment,
                       Coalesce(stringFromIdentityProperty(opts.minValue),
                                IF ParseFloatNegative(increment)
                                THEN "-9223372036854775808" ELSE "1"),
                       Coalesce(stringFromIdentityProperty(opts.maxValue),
                                IF ParseFloatNegative(increment)
                                THEN "-1" ELSE "9223372036854775807"))
    IN  IF ~MapHas(sequencesToReturn, key)
        THEN MapPut(sequencesToReturn, key,
                    WithIncrement(Coalesce(stringFromIdentityProperty(opts.increment), "1")))
        ELSE sequencesToReturn

\* one iteration of `for (const role of roles)`; createDb, createRole and
\* inherit are "true", "false" or Undefined in the descriptor
RoleStep(role, rolesToReturn) ==
    IF ~role.existing
    THEN MapPut(rolesToReturn, role.name,
                [name |-> role.name,
                 createDb |-> (Coalesce(role.createDb, "false") = "true"),
                 createRole |-> (Coalesce(role.createRole, "false") = "true"),
                 inherit |-> (Coalesce(role.inherit, "true") = "true")])
    ELSE rolesToReturn

\* ---------------------------------------------------------------- view assembler

\* the selected fields of a view that are columns; acc as in ColumnStep
RECURSIVE ViewColumns(_, _, _, _, _)
ViewColumns(selectedFields, i, viewName, schema, acc) ==
    IF i > Len(selectedFields) \/ acc.err # Undefined THEN acc
    ELSE ViewColumns(selectedFields, i + 1, viewName, schema,
                     IF selectedFields[i].isColumn
                     THEN ColumnStep(selectedFields[i].column, selectedFields[i].column.name,
                                     viewName, schema, acc)
                     ELSE acc)

\* (mutant) the key of a view leaves its schema out
ViewKeyWithoutSchema(schema, viewName) == "public." \o viewName

ViewKey(schema, viewName) == Coalesce(schema, "public") \o "." \o viewName

\* the duplicate test of a view or materialized view
ViewNameTaken(resultViews, viewKey) == MapHas(resultViews, viewKey)

\* one iteration of `for (const view of combinedViews)`: [err, resultViews]
ViewStep(view, resultViews) ==
    LET materialized == ~view.isPgView
        viewSchema == Coalesce(view.schema, "public")
        viewKey == ViewKey(view.schema, view.name)
        Store(acc) ==
            IF acc.err # Undefined
            THEN [err |-> "We've found duplicated unique constraint names",
                  resultViews |-> resultViews]
            ELSE [err |-> Undefined,
                  resultViews |->
                     MapPut(resultViews, viewKey,
                            [columns |-> acc.columnsObject,
                             definition |-> IF view.isExisting THEN Undefined ELSE view.query,
                             name |-> view.name,
                             schema |-> viewSchema,
                             isExisting |-> view.isExisting,
                             withNoData |-> IF materialized THEN view.withNoData ELSE Undefined,
                             materialized |-> materialized,
                             tablespace |-> IF materialized THEN view.tablespace ELSE Undefined,
                             using |-> IF materialized THEN view.using ELSE Undefined])]
    IN  IF ViewNameTaken(resultViews, viewKey)
        THEN [err |-> "We've found duplicated view name", resultViews |-> resultViews]
        ELSE Store(ViewColumns(view.selectedFields, 1, view.name, view.schema,
                               [err |-> Undefined, columnsObject |-> EmptyMap,
                                uniqueConstraintObject |-> EmptyMap]))

\* ---------------------------------------------------------------- enums, schemas, return

RECURSIVE EnumsToReturn(_, _, _)
EnumsToReturn(enums, i, map) ==
    IF i > Len(enums) THEN map
    ELSE LET obj == enums[i]
             enumSchema == IF Truthy(obj.schema) THEN obj.schema ELSE "public"
         IN  EnumsToReturn(enums, i + 1,
                           MapPut(map, enumSchema \o "." \o obj.enumName,
                                  [name |-> obj.enumName, schema |-> enumSchema,
                                   values |-> obj.enumValues]))

RECURSIVE SchemasObject(_, _, _, _)
SchemasObject(schemas, i, config, map) ==
    IF i > Len(schemas) THEN map
    ELSE LET it == schemas[i]
             keep == IF config.schemaFilter.defined
                     THEN Includes(config.schemaFilter.list, it.schemaName)
                          /\ it.schemaName # "public"
                     ELSE it.schemaName # "public"
         IN  SchemasObject(schemas, i + 1, config,
                           IF keep THEN MapPut(map, it.schemaName, it.schemaName) ELSE map)

\* the returned document
Snapshot(objects, config, tables, views, sequences, roles, policies) ==
    [version |-> "7",
     dialect |-> "postgresql",
     tables |-> tables,
     enums |-> EnumsToReturn(objects.enums, 1, EmptyMap),
     schemas |-> SchemasObject(objects.schemas, 1, config, EmptyMap),
     sequences |-> sequences,
     roles |-> roles,
     policies |-> policies,
     views |-> views,
     projectId |-> IF Truthy(config.projectId) THEN config.projectId ELSE "drizzle-lab"]

\* ---------------------------------------------------------------- the conversion as a state machine

VARIABLES
    drizzleObjects,     \* first argument of the call in progress
    config,             \* second argument of the call in progress
    pc,                 \* the loop the call is in
    i,                  \* index of the next element of that loop
    result,             \* Record<string, Table>
    resultViews,        \* Record<string, View>
    sequencesToReturn,  \* Record<string, Sequence>
    rolesToReturn,      \* Record<string, Role>
    policiesToReturn,   \* Record<string, Policy>
    indexesInSchema,    \* Record<string, string[]>
    status,             \* "running", "returned" or "thrown"
    thrown,             \* the message of the error thrown, or Undefined
    snapshot,           \* the value returned, or None
    calls,              \* number of calls made so far
    history,            \* arguments and outcome of the calls that have ended
    sqlCall             \* the call of sqlToSnapshot in progress, or NoSqlCall

vars == <<drizzleObjects, config, pc, i, result, resultViews, sequencesToReturn,
          rolesToReturn, policiesToReturn, indexesInSchema, status, thrown,
          snapshot, calls, history, sqlCall>>

\* the number of calls of drizzleObjectsToSnapshot a behaviour makes
MaxCalls == 2

Loops == <<"tables", "policies", "sequences", "roles", "views">>

CombinedViews(objects) == objects.views \o objects.matViews

LoopItems(objects, loop) ==
    IF loop = "tables" THEN objects.tables
    ELSE IF loop = "policies" THEN objects.policies
    ELSE IF loop = "sequences" THEN objects.sequences
    ELSE IF loop = "roles" THEN objects.roles
    ELSE CombinedViews(objects)

\* the first loop after the k-th that has an element, or "return"
RECURSIVE LoopAfter(_, _)
LoopAfter(objects, k) ==
    IF k >= Len(Loops) THEN "return"
    ELSE IF Len(LoopItems(objects, Loops[k + 1])) > 0 THEN Loops[k + 1]
    ELSE LoopAfter(objects, k + 1)

LoopNumber(loop) == CHOOSE k \in 1..Len(Loops) : Loops[k] = loop

\* (mutant) the registry of index names outlives the call
EntryIndexesInSchemaKept(previous) == previous

\* the registry of index names a call starts with
EntryIndexesInSchema(previous) == EmptyMap

\* (mutant) the views of the call before are still there at entry
EnterKeepsViews(objects, cfg) ==
    /\ drizzleObjects' = objects
    /\ config' = cfg
    /\ pc' = LoopAfter(objects, 0)
    /\ i' = 1
    /\ result' = EmptyMap
    /\ resultViews' = resultViews
    /\ sequencesToReturn' = EmptyMap
    /\ rolesToReturn' = EmptyMap
    /\ policiesToReturn' = EmptyMap
    /\ indexesInSchema' = EntryIndexesInSchema(indexesInSchema)
    /\ status' = "running"
    /\ thrown' = Undefined
    /\ snapshot' = None

\* entry of drizzleObjectsToSnapshot: the local collections are allocated
Enter(objects, cfg) ==
    /\ drizzleObjects' = objects
    /\ config' = cfg
    /\ pc' = LoopAfter(objects, 0)
    /\ i' = 1
    /\ result' = EmptyMap
    /\ resultViews' = EmptyMap
    /\ sequencesToReturn' = EmptyMap
    /\ rolesToReturn' = EmptyMap
    /\ policiesToReturn' = EmptyMap
    /\ indexesInSchema' = EntryIndexesInSchema(indexesInSchema)
    /\ status' = "running"
    /\ thrown' = Undefined
    /\ snapshot' = None

\* sqlToSnapshot has not been called
NoSqlCall ==
    [pc |-> "none", sqlDump |-> "", statements |-> << >>, next |-> 1,
     log |-> << >>, schemas |-> << >>, error |-> Undefined]

\* the state before the first call, which is about to convert `objects`
Start(objects, cfg) ==
    /\ drizzleObjects = objects
    /\ config = cfg
    /\ pc = LoopAfter(objects, 0)
    /\ i = 1
    /\ result = EmptyMap
    /\ resultViews = EmptyMap
    /\ sequencesToReturn = EmptyMap
    /\ rolesToReturn = EmptyMap
    /\ policiesToReturn = EmptyMap
    /\ indexesInSchema = EmptyMap
    /\ status = "running"
    /\ thrown = Undefined
    /\ snapshot = None
    /\ calls = 1
    /\ history = << >>
    /\ sqlCall = NoSqlCall

\* pc and i after the element i of the current loop has been processed
Advance ==
    IF i < Len(LoopItems(drizzleObjects, pc))
    THEN pc' = pc /\ i' = i + 1
    ELSE pc' = LoopAfter(drizzleObjects, LoopNumber(pc)) /\ i' = 1

\* an exception leaves the function: nothing is returned
Throw(message) ==
    /\ status' = "thrown"
    /\ thrown' = message
    /\ UNCHANGED <<pc, i, snapshot>>

Continue ==
    /\ Advance
    /\ UNCHANGED <<status, thrown, snapshot>>

ProcessTable ==
    /\ status = "running"
    /\ pc = "tables"
    /\ LET After(step) ==
               /\ result' = step.result
               /\ indexesInSchema' = step.indexesInSchema
               /\ IF step.err # Undefined THEN Throw(step.err) ELSE Continue
       IN  After(TableStep(drizzleObjects.tables[i], config, result, indexesInSchema))
    /\ UNCHANGED <<sqlCall, drizzleObjects, config, resultViews, sequencesToReturn,
                   rolesToReturn, policiesToReturn, calls, history>>

ProcessPolicy ==
    /\ status = "running"
    /\ pc = "policies"
    /\ LET After(step) ==
               /\ result' = step.result
               /\ policiesToReturn' = step.policiesToReturn
               /\ IF step.err # Undefined THEN Throw(step.err) ELSE Continue
       IN  After(PolicyStep(drizzleObjects.policies[i], result, policiesToReturn))
    /\ UNCHANGED <<sqlCall, drizzleObjects, config, resultViews, sequencesToReturn,
                   rolesToReturn, indexesInSchema, calls, history>>

ProcessSequence ==
    /\ status = "running"
    /\ pc = "sequences"
    /\ sequencesToReturn' = SequenceStep(drizzleObjects.sequences[i], sequencesToReturn)
    /\ Continue
    /\ UNCHANGED <<sqlCall, drizzleObjects, config, result, resultViews, rolesToReturn,
                   policiesToReturn, indexesInSchema, calls, history>>

ProcessRole ==
    /\ status = "running"
    /\ pc = "roles"
    /\ rolesToReturn' = RoleStep(drizzleObjects.roles[i], rolesToReturn)
    /\ Continue
    /\ UNCHANGED <<sqlCall, drizzleObjects, config, result, resultViews, sequencesToReturn,
                   policiesToReturn, indexesInSchema, calls, history>>

ProcessView ==
    /\ status = "running"
    /\ pc = "views"
    /\ LET After(step) ==
               /\ resultViews' = step.resultViews
               /\ IF step.err # Undefined THEN Throw(step.err) ELSE Continue
       IN  After(ViewStep(CombinedViews(drizzleObjects)[i], resultViews))
    /\ UNCHANGED <<sqlCall, drizzleObjects, config, result, sequencesToReturn, rolesToReturn,
                   policiesToReturn, indexesInSchema, calls, history>>

\* enums, schemas and the return statement
Return ==
    /\ status = "running"
    /\ pc = "return"
    /\ status' = "returned"
    /\ snapshot' = Snapshot(drizzleObjects, config, result, resultViews,
                            sequencesToReturn, rolesToReturn, policiesToReturn)
    /\ UNCHANGED <<sqlCall, drizzleObjects, config, pc, i, result, resultViews,
                   sequencesToReturn, rolesToReturn, policiesToReturn,
                   indexesInSchema, thrown, calls, history>>

\* ---------------------------------------------------------------- the conversion as a function

RECURSIVE RunTables(_, _, _, _, _)
RunTables(tables, k, cfg, res, registry) ==
    IF k > Len(tables) THEN [err |-> Undefined, result |-> res]
    ELSE LET After(step) ==
                 IF step.err # Undefined THEN [err |-> step.err, result |-> res]
                 ELSE RunTables(tables, k + 1, cfg, step.result, step.indexesInSchema)
         IN  After(TableStep(tables[k], cfg, res, registry))

RECURSIVE RunPolicies(_, _, _, _)
RunPolicies(policies, k, res, top) ==
    IF k > Len(policies) THEN [err |-> Undefined, result |-> res, policiesToReturn |-> top]
    ELSE LET After(step) ==
                 IF step.err # Undefined THEN step
                 ELSE RunPolicies(policies, k + 1, step.result, step.policiesToReturn)
         IN  After(PolicyStep(policies[k], res, top))

RECURSIVE RunSequences(_, _, _)
RunSequences(sequences, k, map) ==
    IF k > Len(sequences) THEN map
    ELSE RunSequences(sequences, k + 1, SequenceStep(sequences[k], map))

RECURSIVE RunRoles(_, _, _)
RunRoles(roles, k, map) ==
    IF k > Len(roles) THEN map
    ELSE RunRoles(roles, k + 1, RoleStep(roles[k], map))

RECURSIVE RunViews(_, _, _)
RunViews(views, k, map) ==
    IF k > Len(views) THEN [err |-> Undefined, resultViews |-> map]
    ELSE LET After(step) ==
                 IF step.err # Undefined THEN step
                 ELSE RunViews(views, k + 1, step.resultViews)
         IN  After(ViewStep(views[k], map))

\* what one call of drizzleObjectsToSnapshot(objects, cfg) ends in
Outcome(objects, cfg) ==
    LET AfterViews(p, v) ==
            IF v.err # Undefined THEN [thrown |-> v.err, snapshot |-> None]
            ELSE [thrown |-> Undefined,
                  snapshot |->
                     Snapshot(objects, cfg, p.result, v.resultViews,
                              RunSequences(objects.sequences, 1, EmptyMap),
                              RunRoles(objects.roles, 1, EmptyMap),
                              p.policiesToReturn)]
        AfterPolicies(p) ==
            IF p.err # Undefined THEN [thrown |-> p.err, snapshot |-> None]
            ELSE AfterViews(p, RunViews(CombinedViews(objects), 1, EmptyMap))
        AfterTables(t) ==
            IF t.err # Undefined THEN [thrown |-> t.err, snapshot |-> None]
            ELSE AfterPolicies(RunPolicies(objects.policies, 1, t.result, EmptyMap))
    IN  AfterTables(RunTables(objects.tables, 1, cfg, EmptyMap, EmptyMap))

\* ---------------------------------------------------------------- descriptors

Column(name) ==
    [name |-> name, columnType |-> "PgInteger", sqlType |-> "integer",
     notNull |-> FALSE, primary |-> FALSE,
     isUnique |-> FALSE, uniqueName |-> Undefined, uniqueType |-> Undefined,
     generatedIdentity |-> None, default |-> NoValue]

UniqueColumn(name, uniqueName) ==
    [Column(name) EXCEPT !.isUnique = TRUE, !.uniqueName = uniqueName]

Table(name, schema) ==
    [name |-> name, schema |-> schema,
     columns |-> <<Column("a"), Column("b")>>,
     indexes |-> << >>, foreignKeys |-> << >>, checks |-> << >>,
     primaryKeys |-> << >>, uniqueConstraints |-> << >>, policies |-> << >>,
     enableRLS |-> FALSE]

IndexedColumn(name) ==
    [isSQL |-> FALSE, name |-> name, sql |-> Undefined, type |-> "PgInteger",
     order |-> "asc", nulls |-> "last", opClass |-> Undefined]

IndexedSQL(sql) ==
    [isSQL |-> TRUE, name |-> Undefined, sql |-> sql, type |-> Undefined,
     order |-> Undefined, nulls |-> Undefined, opClass |-> Undefined]

IndexOn(name, columns) ==
    [name |-> name, columns |-> columns, unique |-> FALSE, concurrently |-> FALSE,
     method |-> Undefined]

Policy(name, to, linkedTable) ==
    [name |-> name, as |-> Undefined, for |-> Undefined, to |-> to,
     using |-> Undefined, withCheck |-> Undefined, linkedTable |-> linkedTable]

LinkTo(name, schema) == [name |-> name, schema |-> schema]

Check(name) == [name |-> name, value |-> "a > 0"]

UniqueOn(name, columns) == [name |-> name, columns |-> columns, nullsNotDistinct |-> FALSE]

SequenceOf(name, schema) ==
    [seqName |-> name, schema |-> schema, seqOptions |-> NoSequenceOptions]

Role(name) ==
    [name |-> name, existing |-> FALSE, createDb |-> Undefined,
     createRole |-> Undefined, inherit |-> Undefined]

View(name, schema) ==
    [name |-> name, schema |-> schema, isPgView |-> TRUE, isExisting |-> FALSE,
     query |-> "select 1",
     selectedFields |-> <<[key |-> "a", isColumn |-> TRUE, column |-> Column("a")]>>,
     tablespace |-> Undefined, using |-> Undefined, withNoData |-> Undefined]

MaterializedView(name, schema) == [View(name, schema) EXCEPT !.isPgView = FALSE]

EnumOf(name, schema) == [enumName |-> name, schema |-> schema, enumValues |-> <<"x", "y">>]

NoFilter == [defined |-> FALSE, list |-> << >>]
Filter(list) == [defined |-> TRUE, list |-> list]

Config(schemaFilter) ==
    [casing |-> Undefined, schemaFilter |-> schemaFilter, projectId |-> Undefined]

CasedConfig(schemaFilter, casing) == [Config(schemaFilter) EXCEPT !.casing = casing]

\* one valid object of every kind
BaseObjects ==
    [tables |-> <<[Table("t0", Undefined) EXCEPT
                     !.indexes = <<IndexOn(Undefined, <<IndexedColumn("a")>>)>>]>>,
     enums |-> <<EnumOf("e", Undefined)>>,
     schemas |-> <<[schemaName |-> "s1"]>>,
     sequences |-> <<SequenceOf("q", Undefined)>>,
     roles |-> <<Role("r")>>,
     policies |-> <<Policy("p0", PolicyToUndefined, LinkTo("t0", Undefined))>>,
     views |-> <<View("v0", Undefined)>>,
     matViews |-> << >>]

\* a further call converts the same objects again, or BaseObjects
Call ==
    /\ status # "running"
    /\ calls < MaxCalls
    /\ \E objects \in {drizzleObjects, BaseObjects} : Enter(objects, config)
    /\ calls' = calls + 1
    /\ history' = Append(history, [objects |-> drizzleObjects, thrown |-> thrown,
                                    snapshot |-> snapshot])
    /\ UNCHANGED sqlCall

Next ==
    \/ ProcessTable
    \/ ProcessPolicy
    \/ ProcessSequence
    \/ ProcessRole
    \/ ProcessView
    \/ Return
    \/ Call

\* all sequences over S of length at most n
SeqsUpTo(S, n) == UNION {[1..k -> S] : k \in 0..n}

RECURSIVE Flatten(_)
Flatten(arrays) ==
    IF Len(arrays) = 0 THEN << >> ELSE Head(arrays) \o Flatten(Tail(arrays))

Distinct(arr) == \A a, b \in 1..Len(arr) : a # b => arr[a] # arr[b]

Names(arr) == [k \in 1..Len(arr) |-> arr[k].name]

Ended == status # "running"

\* ---------------------------------------------------------------- what the claims speak of

\* the table's schema (absent = "public") is not in a configured schemaFilter
FilteredOut(table, cfg) ==
    /\ cfg.schemaFilter.defined
    /\ \A k \in 1..Len(cfg.schemaFilter.list) :
          cfg.schemaFilter.list[k] # Coalesce(table.schema, "public")

QualifiedName(schema, name) == Coalesce(schema, "public") \o "." \o name

\* the tables of the input that are converted
Converted(objects, cfg) ==
    {k \in 1..Len(objects.tables) : ~FilteredOut(objects.tables[k], cfg)}

\* the converted tables whose entry is in the output: the last of each key
Stored(objects, cfg) ==
    {k \in Converted(objects, cfg) :
        \A l \in Converted(objects, cfg) :
            l > k => QualifiedName(objects.tables[l].schema, objects.tables[l].name)
                     # QualifiedName(objects.tables[k].schema, objects.tables[k].name)}

\* where a linked standalone policy is put: the key of its table when that is
\* in the output, otherwise the top-level map
PolicyHome(objects, cfg, policy) ==
    LET key == QualifiedName(policy.linkedTable.schema, policy.linkedTable.name)
    IN  IF \E k \in Stored(objects, cfg) :
               QualifiedName(objects.tables[k].schema, objects.tables[k].name) = key
        THEN key
        ELSE "#policies"

\* two inline policies of the table have the same name
InlinePolicyClash(table) == ~Distinct(Names(table.policies))

\* the j-th standalone policy is linked and has the name of a policy that is,
\* when it is processed, in the entry of its table or in the top-level map: an
\* inline policy of the stored table, or an earlier linked policy that was put
\* in the same entry or in the top-level map
LinkedPolicyClash(objects, cfg, j) ==
    LET policy == objects.policies[j]
    IN  /\ policy.linkedTable # None
        /\ \/ \E l \in 1..(j - 1) :
                 /\ objects.policies[l].linkedTable # None
                 /\ objects.policies[l].name = policy.name
                 /\ PolicyHome(objects, cfg, objects.policies[l])
                    \in {PolicyHome(objects, cfg, policy), "#policies"}
           \/ \E k \in Stored(objects, cfg) :
                 /\ QualifiedName(objects.tables[k].schema, objects.tables[k].name)
                    = PolicyHome(objects, cfg, policy)
                 /\ \E a \in 1..Len(objects.tables[k].policies) :
                       objects.tables[k].policies[a].name = policy.name

PolicyErrors ==
    {"ReferenceError: Cannot access 'tableKey' before initialization",
     "We've found duplicated policy name"}

\* the policies a call processes: inline ones of converted tables, linked ones
ProcessedPolicyNames(objects, cfg) ==
    Flatten([k \in 1..Len(objects.tables) |->
                IF k \in Converted(objects, cfg)
                THEN Names(objects.tables[k].policies) ELSE << >>])
    \o Flatten([j \in 1..Len(objects.policies) |->
                IF objects.policies[j].linkedTable # None
                THEN <<objects.policies[j].name>> ELSE << >>])

\* the policy names of a snapshot: of every tables[*].policies, then top-level
SnapshotPolicyNames(snap) ==
    Flatten([k \in 1..Len(snap.tables) |-> MapKeys(snap.tables[k].value.policies)])
    \o MapKeys(snap.policies)

\* ---------------------------------------------------------------- policies: inputs

\* the longest list of standalone policies
MaxPolicies == 2

InlinePolicy(name) == Policy(name, PolicyToUndefined, None)

InlinePolicyLists ==
    {<< >>, <<InlinePolicy("p")>>, <<InlinePolicy("p"), InlinePolicy("q")>>,
     <<InlinePolicy("p"), InlinePolicy("p")>>}

StandalonePolicies ==
    {Policy("p", PolicyToUndefined, None),
     Policy("p", PolicyToUndefined, LinkTo("t1", Undefined)),
     Policy("p", PolicyToUndefined, LinkTo("t2", Undefined)),
     Policy("p", PolicyToUndefined, LinkTo("t1", "s1")),
     Policy("q", PolicyToUndefined, LinkTo("t1", Undefined))}

PolicyObjects ==
    {[BaseObjects EXCEPT
        !.tables = <<[Table("t1", schema1) EXCEPT !.policies = inline1],
                     [Table(name2, Undefined) EXCEPT !.policies = inline2]>>,
        !.policies = standalone] :
        schema1 \in {Undefined, "s1"},
        inline1 \in InlinePolicyLists,
        name2 \in {"t1", "t2"},
        inline2 \in {<< >>, <<InlinePolicy("p")>>},
        standalone \in SeqsUpTo(StandalonePolicies, MaxPolicies)}

InitPolicy ==
    \E objects \in PolicyObjects, filter \in {NoFilter, Filter(<<"public">>)} :
        Start(objects, Config(filter))

SpecPolicy == InitPolicy /\ [][Next]_vars

WithoutUnlinkedPolicies(objects) ==
    [objects EXCEPT !.policies = SelectSeq(@, LAMBDA policy : policy.linkedTable # None)]

\* C10: a standalone policy without a linked table never makes the call fail
\* and leaves no trace: the call ends exactly as the call on the same objects
\* without that policy does (same error or same snapshot, the later policies,
\* sequences, roles, views, enums and schemas included), and its name is in no
\* policies map unless another, linked or inline, policy put it there.
C10_UnlinkedPolicyLeavesNoTrace ==
    /\ Ended =>
          [thrown |-> thrown, snapshot |-> snapshot]
          = Outcome(WithoutUnlinkedPolicies(drizzleObjects), config)
    /\ (status = "running" /\ pc = "policies" /\ drizzleObjects.policies[i].linkedTable = None)
          => LET step == PolicyStep(drizzleObjects.policies[i], result, policiesToReturn)
             IN  /\ step.err = Undefined
                 /\ step.result = result
                 /\ step.policiesToReturn = policiesToReturn

\* a call that returned although an unlinked policy named like a later linked
\* one came first; the later one and the sequences and views are in the result
C10_Witness ==
    /\ status = "returned"
    /\ \E j, l \in 1..Len(drizzleObjects.policies) :
          /\ j < l
          /\ drizzleObjects.policies[j].linkedTable = None
          /\ drizzleObjects.policies[l].linkedTable # None
          /\ drizzleObjects.policies[j].name = drizzleObjects.policies[l].name
          /\ Includes(SnapshotPolicyNames(snapshot), drizzleObjects.policies[l].name)
    /\ Len(snapshot.sequences) > 0
    /\ Len(snapshot.views) > 0

\* ---------------------------------------------------------------- indexes: inputs and claims

SchemaOrPublic(table) == Coalesce(table.schema, "public")

\* the name an index resolves to: the explicit one, else the generated one
ResolvedIndexName(table, index) ==
    IF index.name # Undefined /\ index.name # ""
    THEN index.name
    ELSE table.name \o "_" \o Join(Names(index.columns), "_") \o "_index"

\* the a-th index of table k has the resolved name of an index before it, in
\* processing order, of a converted table of the same schema
IndexClash(objects, cfg, k, a) ==
    \E l \in Converted(objects, cfg) : \E b \in 1..Len(objects.tables[l].indexes) :
        /\ l < k \/ (l = k /\ b < a)
        /\ SchemaOrPublic(objects.tables[l]) = SchemaOrPublic(objects.tables[k])
        /\ ResolvedIndexName(objects.tables[l], objects.tables[l].indexes[b])
           = ResolvedIndexName(objects.tables[k], objects.tables[k].indexes[a])

IndexNameErrors == {"We've found duplicated index name"}

\* the longest list of indexes of the first table
MaxIndexes == 2

IndexChoices ==
    {IndexOn("i", <<IndexedColumn("a")>>),
     IndexOn(Undefined, <<IndexedColumn("a")>>),
     IndexOn("t2_a_index", <<IndexedColumn("a"), IndexedColumn("b")>>)}

IndexObjects ==
    {[BaseObjects EXCEPT
        !.tables = <<[Table("t1", schema1) EXCEPT !.indexes = indexes1],
                     [Table("t2", schema2) EXCEPT !.indexes = indexes2]>>] :
        schema1 \in {Undefined, "public", "s1"},
        schema2 \in {Undefined, "s1"},
        indexes1 \in SeqsUpTo(IndexChoices, MaxIndexes),
        indexes2 \in {<< >>, <<IndexOn("i", <<IndexedColumn("b")>>)>>,
                      <<IndexOn(Undefined, <<IndexedColumn("a")>>)>>}}

InitIndex ==
    \E objects \in IndexObjects, filter \in {NoFilter, Filter(<<"public">>)} :
        Start(objects, Config(filter))

SpecIndex == InitIndex /\ [][Next]_vars

\* C2: index names are unique per schema, not per table. A call returns only
\* if no two indexes of converted tables of one schema (absent = "public")
\* resolve to the same name, in one table or in two; the duplicate-index error
\* is thrown only at a table with such an index, so the same name in two
\* schemas is accepted; and every index of a table in the output is stored in
\* its table under its resolved name.
C2_IndexNamesUniquePerSchema ==
    /\ status = "returned" =>
          /\ \A k \in Converted(drizzleObjects, config) :
                \A a \in 1..Len(drizzleObjects.tables[k].indexes) :
                    ~IndexClash(drizzleObjects, config, k, a)
          /\ \A k \in Stored(drizzleObjects, config) :
                \A a \in 1..Len(drizzleObjects.tables[k].indexes) :
                    LET table == drizzleObjects.tables[k]
                        stored == MapGet(snapshot.tables,
                                         QualifiedName(table.schema, table.name))
                    IN  MapHas(stored.indexes, ResolvedIndexName(table, table.indexes[a]))
    /\ (status = "thrown" /\ thrown \in IndexNameErrors) =>
          /\ pc = "tables"
          /\ \E a \in 1..Len(drizzleObjects.tables[i].indexes) :
                IndexClash(drizzleObjects, config, i, a)

\* a returned snapshot with one index name in two tables of different schemas
C2_Witness ==
    /\ status = "returned"
    /\ \E a, b \in 1..Len(snapshot.tables) :
          /\ a # b
          /\ snapshot.tables[a].value.schema # snapshot.tables[b].value.schema
          /\ \E x \in 1..Len(snapshot.tables[a].value.indexes) :
                MapHas(snapshot.tables[b].value.indexes,
                       snapshot.tables[a].value.indexes[x].key)

ResolvedUniqueNames(table) ==
    Flatten([c \in 1..Len(table.columns) |->
                IF table.columns[c].isUnique THEN <<table.columns[c].uniqueName>>
                ELSE << >>])
    \o [u \in 1..Len(table.uniqueConstraints) |->
          IF table.uniqueConstraints[u].name # Undefined
          THEN table.uniqueConstraints[u].name
          ELSE table.name \o "_" \o Join(Names(table.uniqueConstraints[u].columns), "_")
               \o "_unique"]

UniqueClash(table) == ~Distinct(ResolvedUniqueNames(table))

UniqueErrors ==
    {"Duplicated unique constraint name", "We've found duplicated unique constraint names"}

\* the longest list of table-level unique constraints of the first table
MaxUniques == 2

UniqueChoices ==
    {UniqueOn("u", <<Column("a")>>),
     UniqueOn(Undefined, <<Column("a")>>),
     UniqueOn(Undefined, <<Column("a"), Column("b")>>)}

UniqueObjects ==
    {[BaseObjects EXCEPT
        !.tables = <<[Table("t1", Undefined) EXCEPT
                        !.columns = <<columnA, columnB>>,
                        !.uniqueConstraints = uniques1],
                     [Table("t2", Undefined) EXCEPT
                        !.columns = <<columnC>>,
                        !.uniqueConstraints = uniques2]>>] :
        columnA \in {Column("a"), UniqueColumn("a", "u"), UniqueColumn("a", "t1_a_unique")},
        columnB \in {Column("b"), UniqueColumn("b", "u")},
        uniques1 \in SeqsUpTo(UniqueChoices, MaxUniques),
        columnC \in {Column("a"), UniqueColumn("a", "u")},
        uniques2 \in {<< >>, <<UniqueOn("u", <<Column("a")>>)>>,
                      <<UniqueOn(Undefined, <<Column("a")>>)>>}}

InitUnique == \E objects \in UniqueObjects : Start(objects, Config(NoFilter))

SpecUnique == InitUnique /\ [][Next]_vars

\* C3: within one table any two unique constraints that resolve to the same
\* name make the call fail, whatever their origin (two column-level flags, a
\* column-level flag and a table-level constraint, two table-level
\* constraints, an unnamed one counting by its generated name); the error is
\* thrown only at such a table, so the same name in two tables does not collide.
C3_UniqueNamesUniquePerTable ==
    /\ status = "returned" =>
          \A k \in Converted(drizzleObjects, config) : ~UniqueClash(drizzleObjects.tables[k])
    /\ (status = "thrown" /\ thrown \in UniqueErrors /\ pc = "tables") =>
          UniqueClash(drizzleObjects.tables[i])

\* a returned snapshot with one unique constraint name in two tables, one of
\* them holding a column-level and a table-level constraint
C3_Witness ==
    /\ status = "returned"
    /\ \E a, b \in 1..Len(snapshot.tables) :
          /\ a # b
          /\ MapHas(snapshot.tables[a].value.uniqueConstraints, "u")
          /\ MapHas(snapshot.tables[b].value.uniqueConstraints, "u")
          /\ Len(snapshot.tables[a].value.uniqueConstraints) > 1
    /\ \E k \in 1..Len(drizzleObjects.tables) :
          /\ Len(drizzleObjects.tables[k].uniqueConstraints) > 0
          /\ \E c \in 1..Len(drizzleObjects.tables[k].columns) :
                drizzleObjects.tables[k].columns[c].isUnique

\* ---------------------------------------------------------------- check constraints: inputs and claims

CheckClash(table) == ~Distinct(Names(table.checks))

CheckErrors == {"We've found duplicated check constraint name"}

\* the longest list of check constraints of the first table
MaxChecks == 2

CheckObjects ==
    {[BaseObjects EXCEPT
        !.tables = <<[Table("t1", schema1) EXCEPT !.checks = checks1],
                     [Table(name2, Undefined) EXCEPT !.checks = checks2]>>] :
        schema1 \in {Undefined, "s1"},
        checks1 \in SeqsUpTo({Check("c"), Check("d")}, MaxChecks),
        name2 \in {"t1", "t2"},
        checks2 \in {<< >>, <<Check("c")>>}}

InitCheck ==
    \E objects \in CheckObjects, filter \in {NoFilter, Filter(<<"public">>)} :
        Start(objects, Config(filter))

SpecCheck == InitCheck /\ [][Next]_vars

\* C7: two check constraints of the same name in one table make the call
\* fail; the error is thrown only at such a table, so the same check name in
\* two different tables is accepted.
C7_CheckNamesUniquePerTable ==
    /\ status = "returned" =>
          \A k \in Converted(drizzleObjects, config) : ~CheckClash(drizzleObjects.tables[k])
    /\ (status = "thrown" /\ thrown \in CheckErrors) =>
          pc = "tables" /\ CheckClash(drizzleObjects.tables[i])

\* a returned snapshot with one check name in two tables
C7_Witness ==
    /\ status = "returned"
    /\ \E a, b \in 1..Len(snapshot.tables) :
          /\ a # b
          /\ MapHas(snapshot.tables[a].value.checkConstraints, "c")
          /\ MapHas(snapshot.tables[b].value.checkConstraints, "c")

\* ---------------------------------------------------------------- views: inputs and claims

\* an earlier entry of the combined list has the qualified name of the v-th
ViewClash(objects, v) ==
    LET views == CombinedViews(objects)
    IN  \E l \in 1..(v - 1) :
            QualifiedName(views[l].schema, views[l].name)
            = QualifiedName(views[v].schema, views[v].name)

ViewErrors == {"We've found duplicated view name"}

\* the longest list of views
MaxViews == 2

ViewObjects ==
    {[BaseObjects EXCEPT !.views = views, !.matViews = matViews] :
        views \in SeqsUpTo({View("v", Undefined), View("v", "public"),
                            View("v", "s1"), View("w", Undefined)}, MaxViews),
        matViews \in {<< >>, <<MaterializedView("v", Undefined)>>,
                      <<MaterializedView("m", "s1"), MaterializedView("m", "s1")>>,
                      <<MaterializedView("m", "s1"), MaterializedView("m", Undefined)>>}}

InitView == \E objects \in ViewObjects : Start(objects, Config(NoFilter))

SpecView == InitView /\ [][Next]_vars

\* C8: two entries of the combined list of views and materialized views with
\* the same qualified name make the call fail, whatever their kinds; the error
\* is thrown only at such an entry, so one view name in two schemas is
\* accepted, and every entry of a returned call is in views under its
\* qualified name.
C8_ViewNamesUnique ==
    /\ status = "returned" =>
          \A v \in 1..Len(CombinedViews(drizzleObjects)) :
              /\ ~ViewClash(drizzleObjects, v)
              /\ LET view == CombinedViews(drizzleObjects)[v]
                     key == QualifiedName(view.schema, view.name)
                 IN  /\ MapHas(snapshot.views, key)
                     /\ MapGet(snapshot.views, key).name = view.name
                     /\ MapGet(snapshot.views, key).materialized = ~view.isPgView
    /\ (status = "thrown" /\ thrown \in ViewErrors) =>
          pc = "views" /\ ViewClash(drizzleObjects, i)

\* a returned snapshot with one view name in two schemas
C8_Witness ==
    /\ status = "returned"
    /\ MapHas(snapshot.views, "public.v")
    /\ MapHas(snapshot.views, "s1.v")

\* ---------------------------------------------------------------- fatal conditions: inputs and claims

\* an index with a raw SQL member and no name
IndexMissingName(index) ==
    /\ index.name = Undefined
    /\ \E m \in 1..Len(index.columns) : index.columns[m].isSQL

\* an index with a vector-typed column member that has no operator class
IndexMissingOpClass(index) ==
    \E m \in 1..Len(index.columns) :
        /\ ~index.columns[m].isSQL
        /\ index.columns[m].type = "PgVector"
        /\ index.columns[m].opClass = Undefined

IndexErrors ==
    IndexNameErrors \cup {"Please specify an index name",
                          "vector type without specifying an operator class"}

IndexFatal(objects, cfg, k) ==
    \E a \in 1..Len(objects.tables[k].indexes) :
        \/ IndexMissingName(objects.tables[k].indexes[a])
        \/ IndexMissingOpClass(objects.tables[k].indexes[a])
        \/ IndexClash(objects, cfg, k, a)

\* the unique constraint names of the selected columns of a view
ViewUniqueNames(view) ==
    Flatten([f \in 1..Len(view.selectedFields) |->
                IF view.selectedFields[f].isColumn /\ view.selectedFields[f].column.isUnique
                THEN <<view.selectedFields[f].column.uniqueName>> ELSE << >>])

\* the k-th element of a loop meets a fatal condition
Fatal(objects, cfg, loop, k) ==
    IF loop = "tables"
    THEN /\ k \in Converted(objects, cfg)
         /\ \/ UniqueClash(objects.tables[k])
            \/ IndexFatal(objects, cfg, k)
            \/ InlinePolicyClash(objects.tables[k])
            \/ CheckClash(objects.tables[k])
    ELSE IF loop = "policies" THEN LinkedPolicyClash(objects, cfg, k)
    ELSE IF loop = "views"
    THEN \/ ViewClash(objects, k)
         \/ ~Distinct(ViewUniqueNames(CombinedViews(objects)[k]))
    ELSE FALSE

\* no element processed before the k-th of the n-th loop meets a fatal condition
NoFatalBefore(objects, cfg, n, k) ==
    \A m \in 1..Len(Loops) : \A l \in 1..Len(LoopItems(objects, Loops[m])) :
        (m < n \/ (m = n /\ l < k)) => ~Fatal(objects, cfg, Loops[m], l)

\* the error of a table is that of its first offending member, in the order
\* unique constraints, indexes, policies, checks
TableErrorKind(objects, cfg, k) ==
    IF UniqueClash(objects.tables[k]) THEN UniqueErrors
    ELSE IF IndexFatal(objects, cfg, k) THEN IndexErrors
    ELSE IF InlinePolicyClash(objects.tables[k]) THEN PolicyErrors
    ELSE CheckErrors

VectorColumn(name, opClass) ==
    [IndexedColumn(name) EXCEPT !.type = "PgVector", !.opClass = opClass]

\* a table without and with each of the fatal conditions
TableVariants(name, schema) ==
    {[Table(name, schema) EXCEPT
        !.indexes = <<IndexOn("i", <<IndexedColumn("a")>>)>>,
        !.checks = <<Check("c")>>,
        !.policies = <<InlinePolicy("p")>>,
        !.uniqueConstraints = <<UniqueOn("u", <<Column("a")>>)>>],
     [Table(name, schema) EXCEPT
        !.columns = <<UniqueColumn("a", "u"), Column("b")>>,
        !.uniqueConstraints = <<UniqueOn("u", <<Column("b")>>)>>],
     [Table(name, schema) EXCEPT
        !.indexes = <<IndexOn("j", <<IndexedColumn("a")>>),
                      IndexOn("j", <<IndexedColumn("b")>>)>>],
     [Table(name, schema) EXCEPT
        !.indexes = <<IndexOn(Undefined, <<IndexedColumn("a"), IndexedSQL("lower(b)")>>)>>,
        !.checks = <<Check("c"), Check("c")>>],
     [Table(name, schema) EXCEPT
        !.indexes = <<IndexOn("k", <<IndexedSQL("lower(b)")>>),
                      IndexOn("v", <<IndexedColumn("a"), VectorColumn("b", Undefined)>>)>>],
     [Table(name, schema) EXCEPT
        !.indexes = <<IndexOn("v", <<VectorColumn("b", "vector_l2_ops")>>)>>,
        !.checks = <<Check("c"), Check("d"), Check("c")>>],
     [Table(name, schema) EXCEPT
        !.policies = <<InlinePolicy("p"), InlinePolicy("p")>>,
        !.checks = <<Check("c"), Check("c")>>]}

FatalObjects ==
    {[BaseObjects EXCEPT
        !.tables = <<table1, table2>>,
        !.policies = standalone,
        !.views = views] :
        table1 \in TableVariants("t1", Undefined) \cup TableVariants("t1", "s1"),
        table2 \in {[Table("t2", schema2) EXCEPT
                        !.indexes = <<IndexOn("i", <<IndexedColumn("b")>>)>>,
                        !.checks = checks2] :
                        schema2 \in {Undefined, "s1"},
                        checks2 \in {<<Check("c")>>, <<Check("c"), Check("c")>>}},
        standalone \in {<< >>,
                        <<Policy("p", PolicyToUndefined, LinkTo("t1", "s1"))>>,
                        <<Policy("q", PolicyToUndefined, LinkTo("t1", "s1")),
                          Policy("q", PolicyToUndefined, LinkTo("t2", Undefined))>>},
        views \in {<<View("v", Undefined)>>,
                   <<View("v", Undefined), View("v", "public")>>,
                   <<[View("v", Undefined) EXCEPT
                        !.selectedFields =
                           <<[key |-> "a", isColumn |-> TRUE,
                              column |-> UniqueColumn("a", "u")],
                             [key |-> "n", isColumn |-> FALSE, column |-> Column("n")],
                             [key |-> "b", isColumn |-> TRUE,
                              column |-> UniqueColumn("b", "u")]>>]>>}}

InitFatal ==
    \E objects \in FatalObjects,
       filter \in {NoFilter, Filter(<<"public">>), Filter(<<"s1">>)} :
        Start(objects, Config(filter))

SpecFatal == InitFatal /\ [][Next]_vars

\* the tables without the k-th
WithoutTable(objects, k) ==
    [objects EXCEPT !.tables = SubSeq(@, 1, k - 1) \o SubSeq(@, k + 1, Len(@))]

\* C4: a table whose schema (absent = "public") is not in a configured
\* schemaFilter is absent from the output and takes part in no collision
\* check: the call ends as the call on the same objects without that table
\* does (the same error or the same snapshot), and no entry of tables has its key.
C4_FilteredTableTakesNoPart ==
    \A k \in 1..Len(drizzleObjects.tables) :
        FilteredOut(drizzleObjects.tables[k], config) =>
            /\ Ended =>
                  [thrown |-> thrown, snapshot |-> snapshot]
                  = Outcome(WithoutTable(drizzleObjects, k), config)
            /\ status = "returned" =>
                  ~Includes(MapKeys(snapshot.tables),
                            QualifiedName(drizzleObjects.tables[k].schema,
                                          drizzleObjects.tables[k].name))

\* a returned call whose filtered-out table holds duplicate names or an index
\* that could not be converted, beside a table that was converted
C4_Witness ==
    /\ status = "returned"
    /\ Len(snapshot.tables) > 0
    /\ \E k \in 1..Len(drizzleObjects.tables) :
          /\ FilteredOut(drizzleObjects.tables[k], config)
          /\ \/ UniqueClash(drizzleObjects.tables[k])
             \/ CheckClash(drizzleObjects.tables[k])
             \/ InlinePolicyClash(drizzleObjects.tables[k])
             \/ \E a \in 1..Len(drizzleObjects.tables[k].indexes) :
                   IndexMissingName(drizzleObjects.tables[k].indexes[a])

\* what holds of every state of a call, for C5
FailFast ==
    /\ status = "thrown" =>
          /\ snapshot = None
          /\ Fatal(drizzleObjects, config, pc, i)
          /\ NoFatalBefore(drizzleObjects, config, LoopNumber(pc), i)
          /\ pc = "tables" => thrown \in TableErrorKind(drizzleObjects, config, i)
    /\ status = "returned" =>
          /\ snapshot # None
          /\ NoFatalBefore(drizzleObjects, config, Len(Loops) + 1, 1)
    /\ (status = "running" /\ pc # "return") =>
          /\ snapshot = None
          /\ NoFatalBefore(drizzleObjects, config, LoopNumber(pc), i)

IdentityColumn(name, class, options) ==
    [Column(name) EXCEPT
        !.columnType = class.columnType,
        !.sqlType = class.sqlType,
        !.generatedIdentity =
            [type |-> "always", sequenceName |-> Undefined, sequenceOptions |-> options]]

ColumnClasses ==
    {[columnType |-> "PgInteger", sqlType |-> "integer"],
     [columnType |-> "PgBigInt53", sqlType |-> "bigint"],
     [columnType |-> "PgSmallInt", sqlType |-> "smallint"]}

IdentityOptions ==
    {[NoSequenceOptions EXCEPT
        !.increment = increment, !.minValue = minValue,
        !.maxValue = maxValue, !.startWith = startWith] :
        increment \in {Undef, Str("1"), Str("-1"), Num(1), Num(0 - 1), Num(0 - 20)},
        minValue \in {Undef, Str("5")},
        maxValue \in {Undef, Num(100)},
        startWith \in {Undef, Str("7")}}

IdentityObjects ==
    {[BaseObjects EXCEPT
        !.tables = <<[Table("t1", Undefined) EXCEPT
                        !.columns = <<IdentityColumn("a", class, options), Column("b")>>]>>] :
        class \in ColumnClasses, options \in IdentityOptions}

InitIdentity == \E objects \in IdentityObjects : Start(objects, Config(NoFilter))

SpecIdentity == InitIdentity /\ [][Next]_vars

\* the bounds of a SQL type, as C9 states them
PositiveBound(sqlType) ==
    IF sqlType = "integer" THEN "2147483647"
    ELSE IF sqlType = "bigint" THEN "9223372036854775807"
    ELSE "32767"

NegativeBound(sqlType) ==
    IF sqlType = "integer" THEN "-2147483648"
    ELSE IF sqlType = "bigint" THEN "-9223372036854775808"
    ELSE "-32768"

\* the range C9 states for an identity column without explicit minValue,
\* maxValue and startWith
StatedRange(column) ==
    LET increment == column.generatedIdentity.sequenceOptions.increment
    IN  IF increment \in {Undef, Str("1")}
        THEN [minValue |-> "1", maxValue |-> PositiveBound(column.sqlType),
              startWith |-> "1"]
        ELSE [minValue |-> NegativeBound(column.sqlType), maxValue |-> "-1",
              startWith |-> "-1"]

\* C9: an identity column with no explicit minValue, maxValue or startWith and
\* increment absent, "1" or "-1" is stored with the range of its SQL type:
\* ascending from "1" to the positive bound, descending from "-1" to the
\* negative bound of that same type, startWith being the end it starts from.
C9_IdentityRangeOfSqlType ==
    status = "returned" =>
        \A k \in 1..Len(drizzleObjects.tables) :
            \A c \in 1..Len(drizzleObjects.tables[k].columns) :
                LET table == drizzleObjects.tables[k]
                    column == table.columns[c]
                    opts == column.generatedIdentity.sequenceOptions
                    stored == MapGet(MapGet(snapshot.tables,
                                            QualifiedName(table.schema, table.name)).columns,
                                     column.name).identity
                IN  (/\ column.generatedIdentity # None
                     /\ opts.minValue = Undef /\ opts.maxValue = Undef
                     /\ opts.startWith = Undef
                     /\ opts.increment \in {Undef, Str("1"), Str("-1")})
                    => /\ stored.minValue = StatedRange(column).minValue
                       /\ stored.maxValue = StatedRange(column).maxValue
                       /\ stored.startWith = StatedRange(column).startWith

\* ---------------------------------------------------------------- policy roles: inputs and claims

\* what a policy's `to` is declared as
ToChoices ==
    {PolicyToUndefined,
     PolicyToString(""),
     PolicyToString("b"),
     PolicyToRole("a"),
     PolicyToArray(<<PolicyToString("b"), PolicyToRole("a")>>),
     PolicyToArray(<<PolicyToRole("c"), PolicyToString("a"), PolicyToString("B"),
                     PolicyToRole("a")>>)}

\* one table with one inline policy, and one standalone policy linked to that
\* table or to a table that is not among the input tables
ToObjects ==
    {[BaseObjects EXCEPT
        !.tables = <<[Table("t1", Undefined) EXCEPT !.policies = <<Policy("p1", to1, None)>>]>>,
        !.policies = <<Policy(name2, to2, LinkTo(table2, Undefined))>>] :
        to1 \in ToChoices, to2 \in ToChoices,
        name2 \in {"p1", "p2"}, table2 \in {"t1", "tx"}}

InitTo == \E objects \in ToObjects : Start(objects, Config(NoFilter))

SpecTo == InitTo /\ [][Next]_vars

\* the names a declared `to` stands for, in declaration order
RoleNames(to) ==
    IF to.kind = "undefined" THEN <<"public">>
    ELSE IF to.kind = "array" THEN Names(to.items)
    ELSE <<to.name>>

\* b holds the elements of a, each as often as a does
SameElements(a, b) ==
    /\ Len(a) = Len(b)
    /\ \A x \in 1..Len(a) :
          Cardinality({y \in 1..Len(a) : a[y] = a[x]})
          = Cardinality({y \in 1..Len(b) : b[y] = a[x]})

\* arr is in ascending order of UTF-16 code units
Ascending(arr) == \A x, y \in 1..Len(arr) : x < y => ~StrLess(arr[y], arr[x])

\* the policies of a returned snapshot with the declaration each came from:
\* the inline ones of the stored tables and the linked standalone ones
StoredPolicies ==
    UNION {{[declared |-> drizzleObjects.tables[k].policies[a],
             stored |-> MapGet(MapGet(snapshot.tables,
                                      QualifiedName(drizzleObjects.tables[k].schema,
                                                    drizzleObjects.tables[k].name)).policies,
                               drizzleObjects.tables[k].policies[a].name)] :
               a \in 1..Len(drizzleObjects.tables[k].policies)} :
           k \in Stored(drizzleObjects, config)}
    \cup
    {[declared |-> drizzleObjects.policies[l],
      stored |-> IF MapHas(snapshot.policies, drizzleObjects.policies[l].name)
                 THEN MapGet(snapshot.policies, drizzleObjects.policies[l].name)
                 ELSE MapGet(MapGet(snapshot.tables,
                                    QualifiedName(drizzleObjects.policies[l].linkedTable.schema,
                                                  drizzleObjects.policies[l].linkedTable.name)
                                   ).policies,
                             drizzleObjects.policies[l].name)] :
        l \in {l \in 1..Len(drizzleObjects.policies) :
                 drizzleObjects.policies[l].linkedTable # None}}

\* C16: the `to` list of a stored policy, inline or standalone-linked alike:
\* ["public"] when no `to` is declared; the one name of a single role name or
\* role reference; for a list of names and role references all their names;
\* and the stored list is always in sorted order.
C16_PolicyToResolvedAndSorted ==
    status = "returned" =>
        \A p \in StoredPolicies :
            /\ Ascending(p.stored.to)
            /\ p.declared.to.kind = "undefined" => p.stored.to = <<"public">>
            /\ (p.declared.to.kind \in {"string", "role"} /\ p.declared.to.name # "")
                  => p.stored.to = <<p.declared.to.name>>
            /\ p.declared.to.kind = "array"
                  => SameElements(RoleNames(p.declared.to), p.stored.to)

\* a returned snapshot in which an inline policy and a top-level policy were
\* both declared with the same unsorted mixed list of four
C16_Witness ==
    /\ status = "returned"
    /\ \E p, q \in StoredPolicies :
          /\ p.declared.linkedTable = None
          /\ q.declared.linkedTable # None
          /\ MapHas(snapshot.policies, q.declared.name)
          /\ p.declared.to = q.declared.to
          /\ Len(p.stored.to) = 4
          /\ p.stored.to # RoleNames(p.declared.to)
          /\ q.stored.to = p.stored.to

MaxMembers == 2

MemberChoices ==
    {IndexedColumn("a"),
     IndexedColumn("userId"),
     IndexedSQL("lower(b)"),
     VectorColumn("v", Undefined),
     VectorColumn("v", "vector_l2_ops")}

\* one table with one index: unnamed, named "" or named "i", over one member
\* or more
MemberObjects ==
    {[BaseObjects EXCEPT
        !.tables = <<[Table("t1", schema) EXCEPT
                        !.columns = <<Column("a"), Column("userId"), Column("v")>>,
                        !.indexes = <<IndexOn(name, members)>>]>>] :
        schema \in {Undefined, "s1"},
        name \in {Undefined, "", "i"},
        members \in SeqsUpTo(MemberChoices, MaxMembers) \ {<< >>}}

InitMember ==
    \E objects \in MemberObjects,
       filter \in {NoFilter, Filter(<<"public">>)},
       casing \in {Undefined, "snake_case", "camelCase"} :
        Start(objects, CasedConfig(filter, casing))

SpecMember == InitMember /\ [][Next]_vars

\* the entry of the output for the k-th input table
StoredTable(k) ==
    MapGet(snapshot.tables,
           QualifiedName(drizzleObjects.tables[k].schema, drizzleObjects.tables[k].name))

\* the a-th index stored for the k-th table, in declaration order
StoredIndex(k, a) == StoredTable(k).indexes[a].value

\* the name the column of the k-th table declared as `name` is stored under
StoredColumnName(k, name) ==
    LET c == CHOOSE c \in 1..Len(drizzleObjects.tables[k].columns) :
                 drizzleObjects.tables[k].columns[c].name = name
    IN  StoredTable(k).columns[c].key

HasExpression(index) == \E m \in 1..Len(index.columns) : index.columns[m].isSQL

\* C12: an index of a converted table with a vector-typed column member that
\* has no operator class makes the call fail, wherever the member stands and
\* whether the index is named or not; the operator-class error is thrown for
\* such an index only, and in a returned snapshot every column member of an
\* index carries the operator class it was declared with.
C12_VectorMemberNeedsOpClass ==
    /\ status = "returned" =>
          \A k \in Converted(drizzleObjects, config) :
              \A a \in 1..Len(drizzleObjects.tables[k].indexes) :
                  /\ ~IndexMissingOpClass(drizzleObjects.tables[k].indexes[a])
                  /\ \A m \in 1..Len(drizzleObjects.tables[k].indexes[a].columns) :
                        LET it == drizzleObjects.tables[k].indexes[a].columns[m]
                        IN  ~it.isSQL => StoredIndex(k, a).columns[m].opclass = it.opClass
    /\ (status = "thrown" /\ thrown = "vector type without specifying an operator class") =>
          /\ pc = "tables"
          /\ \E a \in 1..Len(drizzleObjects.tables[i].indexes) :
                IndexMissingOpClass(drizzleObjects.tables[i].indexes[a])

\* a named index whose second member is a vector column without operator
\* class has failed with the operator-class error
C12_Witness ==
    /\ status = "thrown"
    /\ thrown = "vector type without specifying an operator class"
    /\ \E a \in 1..Len(drizzleObjects.tables[i].indexes) :
          LET index == drizzleObjects.tables[i].indexes[a]
          IN  /\ index.name = "i"
              /\ Len(index.columns) = 2
              /\ index.columns[1].type # "PgVector"
              /\ index.columns[2].type = "PgVector"
              /\ index.columns[2].opClass = Undefined

\* C13: an index with a raw SQL-expression member and no explicit name makes
\* the call fail, so that every index of a returned snapshot with an
\* expression member carries the name it was declared with, never a
\* generated one.
C13_ExpressionIndexKeepsDeclaredName ==
    status = "returned" =>
        \A k \in Converted(drizzleObjects, config) :
            \A a \in 1..Len(drizzleObjects.tables[k].indexes) :
                LET index == drizzleObjects.tables[k].indexes[a]
                IN  HasExpression(index) =>
                        /\ index.name # Undefined
                        /\ \E m \in 1..Len(StoredIndex(k, a).columns) :
                              StoredIndex(k, a).columns[m].isExpression
                        /\ StoredIndex(k, a).name = index.name

\* C14: an index over plain columns that has no explicit name (none, or the
\* empty string) is stored under "<table>_<c1>_..._<cn>_index", c1..cn being
\* the names its columns are stored under, in declaration order; an index with
\* an explicit name is stored under exactly that name.
C14_IndexAutoNaming ==
    status = "returned" =>
        \A k \in Converted(drizzleObjects, config) :
            \A a \in 1..Len(drizzleObjects.tables[k].indexes) :
                LET table == drizzleObjects.tables[k]
                    index == table.indexes[a]
                IN  /\ (~HasExpression(index) /\ index.name \in {Undefined, ""}) =>
                          /\ StoredIndex(k, a).name
                             = table.name \o "_"
                               \o Join([m \in 1..Len(index.columns) |->
                                          StoredColumnName(k, index.columns[m].name)], "_")
                               \o "_index"
                          /\ StoredTable(k).indexes[a].key = StoredIndex(k, a).name
                    /\ index.name \notin {Undefined, ""} =>
                          /\ StoredIndex(k, a).name = index.name
                          /\ StoredTable(k).indexes[a].key = index.name

\* under the snake_case policy an unnamed index over userId and a is stored as
\* t1_user_id_a_index
C14_Witness ==
    /\ status = "returned"
    /\ config.casing = "snake_case"
    /\ \E k \in Converted(drizzleObjects, config) :
          /\ drizzleObjects.tables[k].indexes[1].name = Undefined
          /\ StoredIndex(k, 1).name = "t1_user_id_a_index"

\* ---------------------------------------------------------------- keys: inputs and claims

\* two tables, a view and a materialized view, each without schema, in
\* "public" or in "s1"
KeyObjects ==
    {[BaseObjects EXCEPT
        !.tables = <<Table("t1", schema1), Table("t2", schema2)>>,
        !.views = <<View("v", schema3)>>,
        !.matViews = <<MaterializedView("m", schema4)>>] :
        schema1 \in {Undefined, "public", "s1"},
        schema2 \in {Undefined, "public", "s1"},
        schema3 \in {Undefined, "public", "s1"},
        schema4 \in {Undefined, "public", "s1"}}

InitKey ==
    \E objects \in KeyObjects, filter \in {NoFilter, Filter(<<"s1">>)} :
        Start(objects, Config(filter))

SpecKey == InitKey /\ [][Next]_vars

\* every entry of the map is stored under "<schema>.<name>" of its own fields
KeyedBySchemaAndName(map) ==
    \A e \in 1..Len(map) : map[e].key = map[e].value.schema \o "." \o map[e].value.name

\* C15 as stated: each key of tables and of views is "<schema>.<name>" of the
\* entity under it, the schema recorded in the entity being the descriptor's
\* schema or "public" when it has none.
C15_KeysAreSchemaAndName ==
    status = "returned" =>
        /\ KeyedBySchemaAndName(snapshot.tables)
        /\ KeyedBySchemaAndName(snapshot.views)
        /\ \A k \in Stored(drizzleObjects, config) :
              StoredTable(k).schema = Coalesce(drizzleObjects.tables[k].schema, "public")

\* C15 (amended): each table and view of the output is stored under
\* "<schema or public>.<name>" of its descriptor; a view records the schema
\* defaulted to "public", but a table records the schema of its descriptor
\* and the empty string when it has none, so that the key of such a table is
\* "public.<name>" while its schema field is "".
C15_KeysDefaultSchemaTablesRecordDeclared ==
    status = "returned" =>
        /\ \A k \in Stored(drizzleObjects, config) :
              LET table == drizzleObjects.tables[k]
              IN  /\ MapHas(snapshot.tables, QualifiedName(table.schema, table.name))
                  /\ StoredTable(k).name = table.name
                  /\ StoredTable(k).schema = Coalesce(table.schema, "")
        /\ \A e \in 1..Len(snapshot.tables) :
              \E k \in Stored(drizzleObjects, config) :
                  snapshot.tables[e].key
                  = QualifiedName(drizzleObjects.tables[k].schema, drizzleObjects.tables[k].name)
        /\ Len(snapshot.views) = Len(CombinedViews(drizzleObjects))
        /\ \A v \in 1..Len(CombinedViews(drizzleObjects)) :
              LET view == CombinedViews(drizzleObjects)[v]
              IN  /\ snapshot.views[v].key = QualifiedName(view.schema, view.name)
                  /\ snapshot.views[v].value.name = view.name
                  /\ snapshot.views[v].value.schema = Coalesce(view.schema, "public")

\* a returned snapshot with a table and a view that have no schema beside a
\* table and a view of schema "s1"
C15_Witness ==
    /\ status = "returned"
    /\ MapHas(snapshot.tables, "public.t1")
    /\ MapGet(snapshot.tables, "public.t1").schema = ""
    /\ MapHas(snapshot.tables, "s1.t2")
    /\ MapHas(snapshot.views, "public.v")
    /\ drizzleObjects.views[1].schema = Undefined
    /\ MapHas(snapshot.views, "s1.m")

\* ---------------------------------------------------------------- sequences: inputs and claims

\* the longest list of sequences
MaxSequences == 3

SequenceWith(name, schema, increment) ==
    [SequenceOf(name, schema) EXCEPT !.seqOptions.increment = increment]

SequenceChoices ==
    {SequenceWith("q", Undefined, Undef),
     SequenceWith("q", "public", Str("-1")),
     SequenceWith("q", Undefined, Num(5)),
     SequenceWith("q", "s1", Num(2)),
     SequenceWith("r", "s1", Undef)}

SequenceObjects ==
    {[BaseObjects EXCEPT !.sequences = sequences] :
        sequences \in SeqsUpTo(SequenceChoices, MaxSequences) \ {<< >>}}

InitSequence == \E objects \in SequenceObjects : Start(objects, Config(NoFilter))

SpecSequence == InitSequence /\ [][Next]_vars

SequenceKey(sequence) == QualifiedName(sequence.schema, sequence.seqName)

\* the sequences that are the first of their qualified name, in input order
FirstSequences(sequences) ==
    {k \in 1..Len(sequences) :
        \A l \in 1..(k - 1) : SequenceKey(sequences[l]) # SequenceKey(sequences[k])}

DefaultChoices ==
    {NoValue,
     SqlValue("now()"),
     StringValue("it's"),
     NumberValue(7),
     DateValue("2024-01-02T03:04:05.678Z"),
     ArrayValue(<< >>),
     ArrayValue(<<NumberValue(1), NumberValue(2), NumberValue(3)>>),
     ArrayValue(<<ArrayValue(<<NumberValue(1), NumberValue(2)>>),
                  ArrayValue(<<NumberValue(3), NumberValue(4)>>)>>),
     ArrayValue(<<StringValue("x"), BooleanValue(TRUE), NumberValue(0 - 5)>>)}

ColumnWithDefault(name, sqlType, default) ==
    [Column(name) EXCEPT !.sqlType = sqlType, !.default = default]

\* one table of one or two schemas whose column d has a default
DefaultObjects ==
    {[BaseObjects EXCEPT
        !.tables = <<[Table("t1", schema) EXCEPT
                        !.columns = <<Column("a"),
                                      ColumnWithDefault("d", sqlType, default)>>]>>] :
        schema \in {Undefined, "s1"},
        sqlType \in {"integer", "integer[]", "INTEGER[][]", "text[3]", "jsonb", "timestamp"},
        default \in DefaultChoices}

InitDefault == \E objects \in DefaultObjects : Start(objects, Config(NoFilter))

SpecDefault == InitDefault /\ [][Next]_vars

\* the type is written with a pair of brackets
ArrayTyped(sqlType) ==
    \E a, b \in 1..Len(sqlType) :
        a < b /\ SubSeq(sqlType, a, a) = "[" /\ SubSeq(sqlType, b, b) = "]"

\* an array of numbers, or of such arrays
RECURSIVE NumbersOnly(_)
NumbersOnly(items) ==
    \A k \in 1..Len(items) :
        \/ items[k].kind = "number"
        \/ items[k].kind = "array" /\ NumbersOnly(items[k].items)

\* the brace-delimited, comma-joined literal of an array of numbers, nested
\* arrays recursing
RECURSIVE BraceLiteral(_)
BraceLiteral(items) ==
    "{" \o Join([k \in 1..Len(items) |->
                    IF items[k].kind = "array" THEN BraceLiteral(items[k].items)
                    ELSE NumberToString(items[k].n)], ",")
    \o "}"

\* the columns with an array default on an array type, each with what is
\* stored as its default
StoredArrayDefaults ==
    UNION {{[column |-> drizzleObjects.tables[k].columns[c],
             default |-> StoredTable(k).columns[c].value.default] :
               c \in {c \in 1..Len(drizzleObjects.tables[k].columns) :
                        /\ drizzleObjects.tables[k].columns[c].default.kind = "array"
                        /\ ArrayTyped(drizzleObjects.tables[k].columns[c].sqlType)}} :
           k \in Stored(drizzleObjects, config)}

\* C18 as stated: an array default on an array-typed column is stored as the
\* brace-delimited literal: [1,2,3] as "{1,2,3}", [[1,2],[3,4]] as
\* "{{1,2},{3,4}}".
C18_ArrayDefaultIsBraceLiteral ==
    status = "returned" =>
        \A d \in StoredArrayDefaults :
            NumbersOnly(d.column.default.items) =>
                /\ d.default.kind = "string"
                /\ d.default.s = BraceLiteral(d.column.default.items)

\* C18 (amended): an array default on an array-typed column is stored as an
\* SQL string: the brace-delimited, comma-joined literal, nested arrays
\* recursing, between single quotes; [1,2,3] is stored as "'{1,2,3}'" and
\* [[1,2],[3,4]] as "'{{1,2},{3,4}}'".
C18_ArrayDefaultIsQuotedBraceLiteral ==
    status = "returned" =>
        \A d \in StoredArrayDefaults :
            /\ d.default.kind = "string"
            /\ Len(d.default.s) >= 4
            /\ SubSeq(d.default.s, 1, 2) = "'{"
            /\ SubSeq(d.default.s, Len(d.default.s) - 1, Len(d.default.s)) = "}'"
            /\ NumbersOnly(d.column.default.items) =>
                  d.default.s = "'" \o BraceLiteral(d.column.default.items) \o "'"
            /\ d.column.default
               = ArrayValue(<<NumberValue(1), NumberValue(2), NumberValue(3)>>)
                  => d.default.s = "'{1,2,3}'"
            /\ d.column.default
               = ArrayValue(<<ArrayValue(<<NumberValue(1), NumberValue(2)>>),
                              ArrayValue(<<NumberValue(3), NumberValue(4)>>)>>)
                  => d.default.s = "'{{1,2},{3,4}}'"

\* the nested default [[1,2],[3,4]] of a column of a two-dimensional array
\* type has been stored
C18_Witness ==
    /\ status = "returned"
    /\ \E d \in StoredArrayDefaults :
          /\ d.column.sqlType = "INTEGER[][]"
          /\ d.default.s = "'{{1,2},{3,4}}'"

\* ---------------------------------------------------------------- sqlToSnapshot

\* the number of statements of a dump
MaxStatements == 3

\* the pieces of sqlDump between ";", in order, the empty ones dropped
RECURSIVE splitSqlStatements(_)
splitSqlStatements(sqlDump) ==
    IF Len(sqlDump) = 0 THEN << >>
    ELSE LET at == StrIndexOf(sqlDump, ";", 1)
             piece == IF at = 0 THEN sqlDump ELSE SubSeq(sqlDump, 1, at - 1)
             rest == IF at = 0 THEN "" ELSE SubSeq(sqlDump, at + 1, Len(sqlDump))
         IN  (IF piece = "" THEN << >> ELSE <<piece>>) \o splitSqlStatements(rest)

\* the longest run of \w characters of s that starts at `from`
RECURSIVE Word(_, _)
Word(s, from) ==
    IF from > Len(s) \/ CharCode(SubSeq(s, from, from)) = 0 THEN ""
    ELSE SubSeq(s, from, from) \o Word(s, from + 1)

\* "?(\w+) at `from`: the captured word, "" when there is none
QuotedWord(s, from) ==
    IF from <= Len(s) /\ SubSeq(s, from, from) = "\"" /\ Word(s, from + 1) # ""
    THEN Word(s, from + 1)
    ELSE Word(s, from)

\* /CREATE SCHEMA (?:IF NOT EXISTS )?"?(\w+)"?/ at `from`: the captured name,
\* "" when the pattern does not match there; the optional group is tried first
SchemaAt(s, from) ==
    LET create == "CREATE SCHEMA "
        exists == "IF NOT EXISTS "
        after == from + Len(create)
        guarded == /\ after + Len(exists) - 1 <= Len(s)
                   /\ SubSeq(s, after, after + Len(exists) - 1) = exists
                   /\ QuotedWord(s, after + Len(exists)) # ""
    IN  IF from + Len(create) - 1 > Len(s) \/ SubSeq(s, from, after - 1) # create
        THEN ""
        ELSE IF guarded THEN QuotedWord(s, after + Len(exists))
        ELSE QuotedWord(s, after)

\* Array.from(sqlDump.matchAll(schemaRegex), (m) => m[1]): the names captured
\* at the places from `from` on where the pattern matches, in order (two matches
\* cannot overlap)
RECURSIVE SchemaMatches(_, _)
SchemaMatches(s, from) ==
    LET places == {p \in from..Len(s) : SchemaAt(s, p) # ""}
        first == CHOOSE p \in places : \A q \in places : p <= q
    IN  IF places = {} THEN << >>
        ELSE <<SchemaAt(s, first)>> \o SchemaMatches(s, first + 1)

\* [...new Set(arr)]: the first occurrence of every element, in order
RECURSIVE NewSet(_)
NewSet(arr) ==
    IF Len(arr) = 0 THEN << >>
    ELSE LET front == NewSet(SubSeq(arr, 1, Len(arr) - 1))
         IN  IF Includes(front, arr[Len(arr)]) THEN front
             ELSE Append(front, arr[Len(arr)])

\* the schemas handed to the introspection
DumpSchemas(sqlDump) == <<"public">> \o NewSet(SchemaMatches(sqlDump, 1))

SetupError == "Please install @electric-sql/pglite and @electric-sql/pglite/vector to use this feature"

StatementChoices ==
    {"CREATE SCHEMA s1", "CREATE SCHEMA IF NOT EXISTS \"s2\"",
     "CREATE TABLE s1.t (a int)", "SELECT 1"}

\* the dumps: every statement is followed by ";"
SqlDumps ==
    {Join([k \in 1..Len(list) |-> list[k] \o ";"], "") :
        list \in SeqsUpTo(StatementChoices, MaxStatements)}

\* what a step of sqlToSnapshot leaves alone
ConverterUnchanged ==
    UNCHANGED <<drizzleObjects, config, pc, i, result, resultViews,
                sequencesToReturn, rolesToReturn, policiesToReturn,
                indexesInSchema, status, thrown, snapshot, calls, history>>

\* sqlToSnapshot(sqlDump) is called: the two imports are started
CallSqlToSnapshot ==
    /\ sqlCall.pc = "none"
    /\ \E sqlDump \in SqlDumps :
          sqlCall' = [sqlCall EXCEPT !.pc = "loading", !.sqlDump = sqlDump]
    /\ ConverterUnchanged

\* both imports have resolved: the creation of the client is started
LoadDependencies ==
    /\ sqlCall.pc = "loading"
    /\ sqlCall' = [sqlCall EXCEPT !.pc = "creating",
                                  !.log = Append(@, [op |-> "loaded", statement |-> ""])]
    /\ ConverterUnchanged

\* one of the imports has rejected: the call rejects with the setup error
LoadFails ==
    /\ sqlCall.pc = "loading"
    /\ sqlCall' = [sqlCall EXCEPT !.pc = "rejected", !.error = SetupError,
                                  !.log = Append(@, [op |-> "unavailable", statement |-> ""])]
    /\ ConverterUnchanged

\* PGlite.create has resolved: the dump is split and the loop begins
CreateClient ==
    /\ sqlCall.pc = "creating"
    /\ sqlCall' = [sqlCall EXCEPT !.pc = "loop",
                                  !.statements = splitSqlStatements(sqlCall.sqlDump),
                                  !.next = 1]
    /\ ConverterUnchanged

\* PGlite.create has rejected
CreateFails ==
    /\ sqlCall.pc = "creating"
    /\ sqlCall' = [sqlCall EXCEPT !.pc = "rejected", !.error = "create",
                                  !.log = Append(@, [op |-> "nocreate", statement |-> ""])]
    /\ ConverterUnchanged

\* client.query(statement) is called for the next statement and awaited
SendStatement ==
    /\ sqlCall.pc = "loop"
    /\ sqlCall.next <= Len(sqlCall.statements)
    /\ sqlCall' = [sqlCall EXCEPT !.pc = "querying",
                                  !.log = Append(@, [op |-> "query",
                                                     statement |-> sqlCall.statements[sqlCall.next]])]
    /\ ConverterUnchanged

\* the query awaited has resolved: the loop goes on
StatementCompletes ==
    /\ sqlCall.pc = "querying"
    /\ sqlCall' = [sqlCall EXCEPT !.pc = "loop", !.next = @ + 1,
                                  !.log = Append(@, [op |-> "done",
                                                     statement |-> sqlCall.statements[sqlCall.next]])]
    /\ ConverterUnchanged

\* (mutant) the failure of a statement is swallowed and the loop goes on
StatementFailsSwallowed ==
    /\ sqlCall.pc = "querying"
    /\ sqlCall' = [sqlCall EXCEPT !.pc = "loop", !.next = @ + 1,
                                  !.log = Append(@, [op |-> "failed",
                                                     statement |-> sqlCall.statements[sqlCall.next]])]
    /\ ConverterUnchanged

\* the query awaited has rejected: the call rejects with its error
StatementFails ==
    /\ sqlCall.pc = "querying"
    /\ sqlCall' = [sqlCall EXCEPT !.pc = "rejected", !.error = "query",
                                  !.log = Append(@, [op |-> "failed",
                                                     statement |-> sqlCall.statements[sqlCall.next]])]
    /\ ConverterUnchanged

\* after the loop: the schema names are extracted and importFromDatabase is
\* called
StartIntrospection ==
    /\ sqlCall.pc = "loop"
    /\ sqlCall.next > Len(sqlCall.statements)
    /\ sqlCall' = [sqlCall EXCEPT !.pc = "introspecting",
                                  !.schemas = DumpSchemas(sqlCall.sqlDump),
                                  !.log = Append(@, [op |-> "introspect", statement |-> ""])]
    /\ ConverterUnchanged

\* the promise of importFromDatabase has resolved, and the call with it
IntrospectionCompletes ==
    /\ sqlCall.pc = "introspecting"
    /\ sqlCall' = [sqlCall EXCEPT !.pc = "resolved"]
    /\ ConverterUnchanged

\* the promise of importFromDatabase has rejected, and the call with it
IntrospectionFails ==
    /\ sqlCall.pc = "introspecting"
    /\ sqlCall' = [sqlCall EXCEPT !.pc = "rejected", !.error = "introspection"]
    /\ ConverterUnchanged

NextSql ==
    \/ CallSqlToSnapshot
    \/ LoadDependencies
    \/ LoadFails
    \/ CreateClient
    \/ CreateFails
    \/ SendStatement
    \/ StatementCompletes
    \/ StatementFails
    \/ StartIntrospection
    \/ IntrospectionCompletes
    \/ IntrospectionFails

InitSql == Start(BaseObjects, Config(NoFilter))

SpecSql == InitSql /\ [][NextSql]_vars

\* the statements of the events `op` of the log, in order
RECURSIVE Logged(_, _)
Logged(log, op) ==
    IF Len(log) = 0 THEN << >>
    ELSE (IF Head(log).op = op THEN <<Head(log).statement>> ELSE << >>)
         \o Logged(Tail(log), op)

IsPrefix(a, b) == Len(a) <= Len(b) /\ SubSeq(b, 1, Len(a)) = a

\* the statements written into the dump, recovered without the splitter
DumpStatements(sqlDump) ==
    CHOOSE list \in SeqsUpTo(StatementChoices, MaxStatements) :
        Join([k \in 1..Len(list) |-> list[k] \o ";"], "") = sqlDump

SqlOrder ==
    LET log == sqlCall.log
        queries == Logged(log, "query")
        done == Logged(log, "done")
        failures == Len(Logged(log, "failed")) + Len(Logged(log, "unavailable"))
                    + Len(Logged(log, "nocreate"))
        introspections == Len(Logged(log, "introspect"))
    IN  /\ sqlCall.pc # "none" =>
              /\ IsPrefix(queries, DumpStatements(sqlCall.sqlDump))
              /\ IsPrefix(done, queries)
              /\ Len(queries) <= Len(done) + 1
        /\ \A p \in 1..Len(log) :
              log[p].op = "query" =>
                  /\ Len(Logged(SubSeq(log, 1, p - 1), "query"))
                     = Len(Logged(SubSeq(log, 1, p - 1), "done"))
                  /\ Len(Logged(SubSeq(log, 1, p - 1), "failed")) = 0
        /\ \A p \in 1..Len(log) :
              log[p].op = "introspect" =>
                  /\ Logged(SubSeq(log, 1, p - 1), "done")
                     = DumpStatements(sqlCall.sqlDump)
                  /\ Len(Logged(SubSeq(log, 1, p - 1), "loaded")) = 1
                  /\ failures = 0
        /\ introspections <= 1
        /\ failures > 0 =>
              /\ introspections = 0
              /\ sqlCall.pc = "rejected"
              /\ sqlCall.error # Undefined
        /\ sqlCall.pc = "rejected" /\ failures = 0 =>
              introspections = 1 /\ sqlCall.error = "introspection"

\* C19: the statements of the dump are sent to the engine one at a time in
\* their split order, each only after the one before has completed; the
\* introspection is started only after every statement has completed; when
\* the dependency cannot be loaded or a statement fails, the introspection is
\* never started and the call has ended in an error, for good.
C19_StatementsThenIntrospection ==
    /\ []SqlOrder
    /\ [][sqlCall.pc = "rejected" => sqlCall' = sqlCall]_vars

\* the introspection has been started after three statements, one of them a
\* CREATE SCHEMA, have completed in turn
C19_Witness ==
    /\ sqlCall.pc = "introspecting"
    /\ Len(Logged(sqlCall.log, "done")) = 3
    /\ sqlCall.schemas = <<"public", "s1", "s2">>

\* ---------------------------------------------------------------- key names under a casing policy

\* drizzle-orm PrimaryKey.getName() of a key declared without a name
DefaultPrimaryKeyName(tableName, columns) ==
    tableName \o "_" \o Join(columns, "_") \o "_pk"

\* drizzle-orm ForeignKey.getName()
DefaultForeignKeyName(tableName, columns, foreignTable, foreignColumns) ==
    tableName \o "_" \o Join(columns, "_") \o "_" \o foreignTable \o "_"
    \o Join(foreignColumns, "_") \o "_fk"

Columns(names) == [k \in 1..Len(names) |-> Column(names[k])]

PrimaryKeyOn(tableName, names) ==
    [name |-> DefaultPrimaryKeyName(tableName, names), columns |-> Columns(names)]

ForeignKeyOn(tableName, names, foreignTable, foreignNames) ==
    [name |-> DefaultForeignKeyName(tableName, names, foreignTable, foreignNames),
     reference |-> [columns |-> Columns(names),
                    foreignColumns |-> Columns(foreignNames),
                    foreignTable |-> [name |-> foreignTable, schema |-> Undefined]],
     onDelete |-> "no action", onUpdate |-> "no action"]

ColumnNameChoices == {"userId", "user_id", "id", "userIdAlt"}

TableNameChoices == {"t1", "userIdHistory", "user_id_log"}

\* the columns of a composite primary key: one or two different columns
PrimaryKeyChoices ==
    {names \in SeqsUpTo(ColumnNameChoices, 2) :
        Len(names) >= 1 /\ (Len(names) = 2 => names[1] # names[2])}

CasingObjects ==
    {[BaseObjects EXCEPT
        !.tables = <<[Table(tableName, Undefined) EXCEPT
                        !.columns = Columns(<<"userId", "user_id", "id", "userIdAlt">>),
                        !.primaryKeys = <<PrimaryKeyOn(tableName, keyNames)>>,
                        !.foreignKeys = <<ForeignKeyOn(tableName, <<from>>, "users",
                                                       <<to>>)>>]>>] :
        tableName \in TableNameChoices, keyNames \in PrimaryKeyChoices,
        from \in ColumnNameChoices, to \in ColumnNameChoices}

InitCasing ==
    \E objects \in CasingObjects, casing \in {Undefined, "snake_case", "camelCase"} :
        Start(objects, CasedConfig(NoFilter, casing))

SpecCasing == InitCasing /\ [][Next]_vars

\* the declared name of a primary key with every column token cased
CasedPrimaryKeyName(tableName, pk, casing) ==
    DefaultPrimaryKeyName(tableName, CasedNames(pk.columns, casing))

\* the declared name of a foreign key with every column token cased
CasedForeignKeyName(tableName, fk, casing) ==
    DefaultForeignKeyName(tableName, CasedNames(fk.reference.columns, casing),
                          fk.reference.foreignTable.name,
                          CasedNames(fk.reference.foreignColumns, casing))

\* C20: under a casing policy, the stored name of a foreign key and of a
\* composite primary key is the declared name with every column-name token
\* replaced by its cased name and every other character, the table names
\* included, unchanged, also when a column name is a part of the table name or
\* of another column name of the key.
C20_KeyNamesRewrittenByToken ==
    status = "returned" /\ config.casing # Undefined =>
        \A k \in Stored(drizzleObjects, config) :
            LET table == drizzleObjects.tables[k]
            IN  /\ \A a \in 1..Len(table.foreignKeys) :
                      StoredTable(k).foreignKeys[a].value.name
                      = CasedForeignKeyName(table.name, table.foreignKeys[a], config.casing)
                /\ \A a \in 1..Len(table.primaryKeys) :
                      StoredTable(k).compositePrimaryKeys[a].value.name
                      = CasedPrimaryKeyName(table.name, table.primaryKeys[a], config.casing)

\* ---------------------------------------------------------------- placement of linked policies

\* the standalone policies of the call that have a linked table
LinkedPolicies ==
    {j \in 1..Len(drizzleObjects.policies) : drizzleObjects.policies[j].linkedTable # None}

LinkedKey(policy) == QualifiedName(policy.linkedTable.schema, policy.linkedTable.name)

LinkedOn(policy) == QuotedTableName(policy.linkedTable.schema, policy.linkedTable.name)

\* the policy is in the policies of the entry of its linked table, as mapped
InTablePolicies(policy) ==
    /\ MapHas(snapshot.tables, LinkedKey(policy))
    /\ MapHas(MapGet(snapshot.tables, LinkedKey(policy)).policies, policy.name)
    /\ MapGet(MapGet(snapshot.tables, LinkedKey(policy)).policies, policy.name)
       = MappedPolicy(policy)

\* the policy is in the top-level policies, with schema and on of its table
InTopLevelPolicies(policy) ==
    /\ MapHas(snapshot.policies, policy.name)
    /\ MapGet(snapshot.policies, policy.name)
       = [MappedPolicy(policy) EXCEPT
            !.schema = Coalesce(policy.linkedTable.schema, "public"),
            !.on = LinkedOn(policy)]

\* C21: in a returned snapshot every standalone policy with a linked table is
\* in exactly one place: in tables[key].policies when the key of its linked
\* table is in the tables map, otherwise in the top-level policies map with
\* schema and on of the linked table; no entry of the top-level policies map
\* is on a table that is in the tables map.
C21_LinkedPolicyInOnePlace ==
    status = "returned" =>
        /\ \A j \in LinkedPolicies :
              LET policy == drizzleObjects.policies[j]
              IN  IF MapHas(snapshot.tables, LinkedKey(policy))
                  THEN InTablePolicies(policy) /\ ~InTopLevelPolicies(policy)
                  ELSE InTopLevelPolicies(policy)
        /\ \A a \in 1..Len(snapshot.policies) :
              /\ \E j \in LinkedPolicies :
                    /\ drizzleObjects.policies[j].name = snapshot.policies[a].key
                    /\ LinkedOn(drizzleObjects.policies[j]) = snapshot.policies[a].value.on
                    /\ ~MapHas(snapshot.tables, LinkedKey(drizzleObjects.policies[j]))
              /\ \A k \in Stored(drizzleObjects, config) :
                    QuotedTableName(drizzleObjects.tables[k].schema,
                                    drizzleObjects.tables[k].name)
                    # snapshot.policies[a].value.on

\* a returned snapshot with one linked policy in the policies of its table and
\* another, linked to a table that was filtered out, in the top-level map
C21_Witness ==
    /\ status = "returned"
    /\ \E j, l \in LinkedPolicies :
          /\ InTablePolicies(drizzleObjects.policies[j])
          /\ InTopLevelPolicies(drizzleObjects.policies[l])
          /\ \E k \in 1..Len(drizzleObjects.tables) :
                /\ FilteredOut(drizzleObjects.tables[k], config)
                /\ QualifiedName(drizzleObjects.tables[k].schema,
                                 drizzleObjects.tables[k].name)
                   = LinkedKey(drizzleObjects.policies[l])

\* ---------------------------------------------------------------- keys of the maps of a table

\* every entry of the map is stored under its own name
KeyedByName(map) == \A a \in 1..Len(map) : map[a].key = map[a].value.name

====
